---- MODULE Spec2Model ----
(***************************************************************************)
(* Model of the HVAC backend:                                              *)
(*   EnergyOptimizer   (src/optimization/energy_optimization.py)           *)
(*   ComfortOptimizer  (src/optimization/comfort_optimization.py)          *)
(*   the HTTP API      (src/api)                                           *)
(*   RealTimeProcessor (src/real_time/real_time_processing.py)             *)
(*   CircuitBreaker, ConnectionPool (src/api/utils/connection_manager.py)  *)
(*   SystemController  (src/api/services/system_controller.py)             *)
(*                                                                         *)
(* Each public engine operation is one action: it draws its inputs (and    *)
(* what its collaborators hand back) from bounded sets, records the call   *)
(* in eOp / cOp and what the call returned or raised in eRet / cRet.       *)
(*                                                                         *)
(* Numbers.  Energy: kWh and kW are integers, money is in cents.           *)
(* Comfort: reals are fixed-point integers, 1/1000 of the unit ("milli")   *)
(* unless a definition says otherwise; divisions round towards minus       *)
(* infinity.  An Optional value is a sequence: <<>> is None, <<v>> is v.   *)
(***************************************************************************)
EXTENDS Integers, Sequences, FiniteSets, TLC

VARIABLES
    eOp,         \* the last EnergyOptimizer call: its name and inputs
    eRet,        \* what that call returned or raised
    lstm_model,  \* EnergyOptimizer.lstm_model: "none", "provided", or the engine's
                 \* own model, "built" and then "loaded"
    model_file,  \* whether the file models/energy_lstm.h5 exists
    cOp,         \* the last ComfortOptimizer call: its name and inputs
    cRet,        \* what that call returned or raised
    calls,       \* the invocations running concurrently on the EnergyOptimizer
    api,         \* the HTTP API: the last request and its response
    rt,          \* the real-time processor and its connection manager
    tasks,       \* the process_sensor_data calls running concurrently
    breaker,     \* the CircuitBreaker of the API's database service
    pool,        \* the ConnectionPool of the API's database service
    manager,     \* the WebSocket ConnectionManager, client by client
    processing,  \* RealTimeProcessor.processing_tasks and their loops
    controller   \* the SystemController and the commands it stored

vars == <<eOp, eRet, lstm_model, model_file, cOp, cRet, calls, api, rt,
          tasks, breaker, pool, manager, processing, controller>>

\* The components a specification of another component leaves unused.
services == <<breaker, pool, controller>>
realtime == <<tasks, manager, processing>>
ServicesUnused == breaker = <<>> /\ pool = <<>> /\ controller = <<>>
RealTimeUnused == tasks = <<>> /\ manager = <<>> /\ processing = <<>>

\* What the operations of one component leave alone.
notEnergy == <<cOp, cRet, calls, api, rt, services, realtime>>
notComfort == <<eOp, eRet, lstm_model, model_file, calls, api, rt, services, realtime>>
notCalls == <<eOp, eRet, cOp, cRet, api, rt, services, realtime>>
engines == <<eOp, eRet, lstm_model, model_file, cOp, cRet, calls>>

\* The API before its first request.
NoRequest == [op |-> "none"]

\* RealTimeProcessor.__init__ and ConnectionManager.__init__: no counters, no
\* alert times, no connections; nothing processed or broadcast yet.  The
\* database service is the one handed to the constructor: the repository's
\* AstraDBService, which has no save_anomaly_event, or a provided one that has.
Systems == {"s1", "s2"}
DbServices == {"AstraDBService", "provided"}
NoProcessing ==
    [op |-> "none",
     db |-> "provided",
     now |-> 0,
     anomaly_counters |-> [s \in Systems |-> 0],
     last_alert_time |-> [s \in Systems |-> <<>>],
     active_connections |-> [s \in Systems |-> 0],
     broadcast_messages |-> [s \in Systems |-> <<>>]]

(***************************************************************************)
(* Bounds of the model                                                     *)
(***************************************************************************)
MaxSeriesLen == 2    \* longest free-form historical series
MaxHours == 24       \* longest uniform hourly series
MaxSched == 2        \* longest predicted load series / schedule
MaxRecs == 2         \* longest candidate recommendation list
MaxConsecutive == 4  \* largest consecutive-anomaly count followed
MaxTime == 3         \* latest clock reading, in units of 150 s

(***************************************************************************)
(* Generic helpers                                                         *)
(***************************************************************************)
None == <<>>
Some(v) == <<v>>

Abs(x) == IF x < 0 THEN -x ELSE x
Min2(a, b) == IF a <= b THEN a ELSE b
Max2(a, b) == IF a >= b THEN a ELSE b

RECURSIVE SeqSum(_)
SeqSum(s) == IF s = <<>> THEN 0 ELSE Head(s) + SeqSum(Tail(s))

RECURSIVE SeqMax(_)
SeqMax(s) == IF Len(s) = 1 THEN s[1] ELSE Max2(Head(s), SeqMax(Tail(s)))

RECURSIVE Insert(_, _)
Insert(x, s) ==
    IF s = <<>> THEN <<x>>
    ELSE IF x <= Head(s) THEN <<x>> \o s
    ELSE <<Head(s)>> \o Insert(x, Tail(s))

RECURSIVE SortValues(_)
SortValues(s) == IF s = <<>> THEN <<>> ELSE Insert(Head(s), SortValues(Tail(s)))

SeqsUpTo(S, n) == UNION {[1..k -> S] : k \in 0..n}

\* What a call hands back: a value, or a raised exception and its message.
Returned(v, trace) ==
    [status |-> "ok", error |-> "", message |-> "", value |-> Some(v), trace |-> trace]
Raised(type, msg, trace) ==
    [status |-> "error", error |-> type, message |-> msg, value |-> None, trace |-> trace]
NoCall == [status |-> "none", error |-> "", message |-> "", value |-> None, trace |-> <<>>]

(***************************************************************************)
(* EnergyOptimizer                                                         *)
(***************************************************************************)

\* TimeOfUseRates set by the constructor, in cents per kWh and cents per kW.
rate_structure ==
    [peak_rate |-> 25, mid_peak_rate |-> 15, off_peak_rate |-> 8, demand_charge |-> 1500]

\* pd.Series.between(lo, hi): inclusive on both sides.
between(h, lo, hi) == lo <= h /\ h <= hi

peak_hours_mut(h) == between(h, 13, 19)
peak_hours(h) == between(h, 14, 19)
mid_peak_hours(h) == between(h, 8, 13) \/ between(h, 20, 22)
off_peak_hours(h) == ~(peak_hours(h) \/ mid_peak_hours(h))

\* A point's timestamp is a count of hours since the epoch.
TimestampHour(ts) == ts % 24

\* pd.to_datetime(df.index).hour for the RangeIndex of a frame built from a
\* list of records: the integer i is read as i nanoseconds after the epoch.
HourOfIndex(i) == ((i \div 1000000) \div 3600000) % 24

\* The 'hour' column _calculate_energy_costs works with: the frame's own when
\* it has one, else the one derived from the index.
RowHour(df, i) == IF "hour" \in DOMAIN df[i] THEN df[i].hour ELSE HourOfIndex(i - 1)

\* df.loc[mask, 'energy_consumption'].sum()
RECURSIVE MaskedConsumption(_, _, _)
MaskedConsumption(df, mask, i) ==
    IF i > Len(df) THEN 0
    ELSE (IF mask[RowHour(df, i)] THEN df[i].energy_consumption ELSE 0)
         + MaskedConsumption(df, mask, i + 1)

Column(df, name) == [i \in 1..Len(df) |-> df[i][name]]

CalculateEnergyCosts(df, rates) ==
    LET peak_cost == MaskedConsumption(df, [h \in 0..23 |-> peak_hours(h)], 1) * rates.peak_rate
        mid_peak_cost == MaskedConsumption(df, [h \in 0..23 |-> mid_peak_hours(h)], 1) * rates.mid_peak_rate
        off_peak_cost == MaskedConsumption(df, [h \in 0..23 |-> off_peak_hours(h)], 1) * rates.off_peak_rate
        demand_charges == SeqMax(Column(df, "active_power")) * rates.demand_charge
    IN  [peak_cost |-> peak_cost,
         mid_peak_cost |-> mid_peak_cost,
         off_peak_cost |-> off_peak_cost,
         demand_charges |-> demand_charges,
         total_cost |-> peak_cost + mid_peak_cost + off_peak_cost + demand_charges]

\* Expected consumption in tenths of a kWh.
RECURSIVE DegreeHours(_, _, _)
DegreeHours(df, degrees, i) ==
    IF i > Len(df) THEN 0 ELSE degrees[df[i].outside_temp] + DegreeHours(df, degrees, i + 1)

HeatingDegrees(t) == Max2(20 - t, 0)
CoolingDegrees(t) == Max2(t - 24, 0)

CalculateExpectedConsumption(df) ==
    LET temps == {df[i].outside_temp : i \in 1..Len(df)}
        heating_degree_hours == DegreeHours(df, [c \in temps |-> HeatingDegrees(c)], 1)
        cooling_degree_hours == DegreeHours(df, [c \in temps |-> CoolingDegrees(c)], 1)
    IN  heating_degree_hours * 5 + cooling_degree_hours * 7 + 1000

\* Carbon footprint in tenths of a kg: 0.4 kg per kWh.
CalculateCarbonFootprint(total_consumption) == total_consumption * 4

\* A tenth of the largest value in place of the 10th percentile.
Quantile10Mut(s) == SeqMax(s)

\* pd.Series.quantile(0.1), linear interpolation, in tenths of a kW.
Quantile10(s) ==
    LET sorted == SortValues(s)
        lo == (Len(s) - 1) \div 10
        frac == (Len(s) - 1) % 10
    IN  IF frac = 0 THEN 10 * sorted[lo + 1]
        ELSE 10 * sorted[lo + 1] + frac * (sorted[lo + 2] - sorted[lo + 1])

\* `if not consumption_data`
NoDataMut(consumption_data) == FALSE
NoData(consumption_data) == consumption_data = <<>>

\* analyze_energy_consumption; a ratio is the pair <<numerator, denominator>>.
AnalyzeEnergyConsumption(consumption_data) ==
    IF NoData(consumption_data)
    THEN Raised("OptimizationError",
                "Energy consumption analysis failed: No historical data available",
                <<"get_system_status">>)
    ELSE IF consumption_data = <<>>
    THEN \* an empty frame has no columns: df['energy_consumption'] raises KeyError
         Raised("OptimizationError",
                "Energy consumption analysis failed: 'energy_consumption'",
                <<"get_system_status", "DataFrame", "sum">>)
    ELSE
    LET df == consumption_data
        total_consumption == SeqSum(Column(df, "energy_consumption"))
        peak_demand == SeqMax(Column(df, "active_power"))
        base_load == Quantile10(Column(df, "active_power"))
        expected_consumption == CalculateExpectedConsumption(df)
        costs == CalculateEnergyCosts(df, rate_structure)
    IN  Returned(
          [total_consumption |-> total_consumption,
           peak_demand |-> peak_demand,
           base_load |-> base_load,
           efficiency_ratio |->
               IF expected_consumption > 0
               THEN <<10 * total_consumption, expected_consumption>> ELSE <<0, 1>>,
           cost_per_kwh |->
               IF total_consumption > 0
               THEN <<costs.total_cost, total_consumption>> ELSE <<0, 1>>,
           demand_charges |-> costs.demand_charges,
           total_cost |-> costs.total_cost,
           carbon_footprint |-> CalculateCarbonFootprint(total_consumption)],
          <<"get_system_status", "DataFrame", "sum", "max", "quantile",
            "_calculate_expected_consumption", "_calculate_energy_costs">>)

\* The historical store's answers: free-form short series, and hourly series
\* of one value (100 kWh, 100 kW) starting at any hour of the day.
Points ==
    [timestamp : {0, 9, 15}, active_power : {50, 100},
     energy_consumption : {100, 200}, outside_temp : {10, 19, 30}]

HourlySeries(start, n) ==
    [i \in 1..n |-> [timestamp |-> start + i - 1, active_power |-> 100,
                     energy_consumption |-> 100, outside_temp |-> 19]]

SeriesInputs ==
    SeqsUpTo(Points, MaxSeriesLen)
        \cup {HourlySeries(s, n) : s \in {0, 8, 14}, n \in 1..MaxHours}

\* One call is in progress at a time in the model: the next call starts once
\* the caller has taken the previous result.
EnergyIdle == eOp.op = "none"

AnalyzeCall ==
    /\ EnergyIdle
    /\ \E series \in SeriesInputs :
        /\ eOp' = [op |-> "analyze_energy_consumption", series |-> series]
        /\ eRet' = AnalyzeEnergyConsumption(series)
        /\ UNCHANGED <<lstm_model, model_file, notEnergy>>

\* --- optimize_energy_cost ---

\* _calculate_total_cost(x, rates): the cost function of the analysis applied
\* to a schedule, hour h of the schedule being hour h of the day.
HourBandRate(h, rates) ==
    IF peak_hours(h) THEN rates.peak_rate
    ELSE IF mid_peak_hours(h) THEN rates.mid_peak_rate
    ELSE rates.off_peak_rate

RECURSIVE ScheduleEnergyCost(_, _, _)
ScheduleEnergyCost(x, rates, i) ==
    IF i > Len(x) THEN 0
    ELSE x[i] * HourBandRate((i - 1) % 24, rates) + ScheduleEnergyCost(x, rates, i + 1)

CalculateTotalCost(x, rates) ==
    ScheduleEnergyCost(x, rates, 1) + SeqMax(x) * rates.demand_charge

\* _define_optimization_constraints: the operating load bounds.
DefineOptimizationConstraints(min_load, max_load, comfort_constraint) ==
    [min_load |-> min_load, max_load |-> max_load, comfort |-> comfort_constraint]

\* bounds = [(constraints['min_load'], constraints['max_load'])] * len(x0)
ScheduleBoundsMut(x0, constraints) ==
    [i \in 1..Len(x0) |-> <<0, constraints["max_load"]>>]
ScheduleBounds(x0, constraints) ==
    [i \in 1..Len(x0) |-> <<constraints["min_load"], constraints["max_load"]>>]

LoadLevels == {0, 50, 100, 150}
Schedules(n) == [1..n -> LoadLevels]
InBounds(x, bounds) == \A i \in 1..Len(x) : bounds[i][1] <= x[i] /\ x[i] <= bounds[i][2]

\* scipy.optimize.minimize(objective, x0, method='SLSQP', bounds=bounds, ...):
\* every result the solver may hand back.  A successful result lies within
\* the bounds it was given; a failed one is whatever iterate it stopped at.
Minimize(x0, bounds) ==
    {[success |-> TRUE, x |-> x, fun |-> CalculateTotalCost(x, rate_structure)] :
        x \in {y \in Schedules(Len(x0)) : InBounds(y, bounds)}}
    \cup
    {[success |-> FALSE, x |-> x, fun |-> CalculateTotalCost(x, rate_structure)] :
        x \in Schedules(Len(x0))}

\* `if not result.success`
NotConvergedMut(result) == FALSE
NotConverged(result) == ~result.success

\* _optimize_operation_schedule, given what the solver handed back.
OptimizeOperationSchedule(result) ==
    IF NotConverged(result)
    THEN Raised("OptimizationError", "Failed to find optimal schedule", <<"minimize">>)
    ELSE Returned([schedule |-> result.x,
                   expected_cost |-> result.fun,
                   convergence |-> result.success], <<"minimize">>)

\* _calculate_projected_savings: cost(predicted) - cost(optimal).
CalculateProjectedSavings(current_schedule, optimal_schedule) ==
    CalculateTotalCost(current_schedule, rate_structure)
        - CalculateTotalCost(optimal_schedule.schedule, rate_structure)

\* np.percentile(current, 75), linear interpolation, in quarters of a kW.
Percentile75(current) ==
    LET sorted == SortValues(current)
        lo == (3 * (Len(current) - 1)) \div 4
        frac == (3 * (Len(current) - 1)) % 4
    IN  IF frac = 0 THEN 4 * sorted[lo + 1]
        ELSE 4 * sorted[lo + 1] + frac * (sorted[lo + 2] - sorted[lo + 1])

\* `current[hour] > peak_threshold`; hour counts from 0.
AbovePeakThresholdMut(current, hour) == 4 * current[hour + 1] >= Percentile75(current)
AbovePeakThreshold(current, hour) == 4 * current[hour + 1] > Percentile75(current)

\* `optimal[hour] < current[hour]`
ReducedByOptimal(current, optimal, hour) == optimal[hour + 1] < current[hour + 1]

\* _find_best_shift_hour: the off-peak hour of the schedule, other than the
\* hour itself, that carries the least optimal load (the earliest of them);
\* None when the schedule has no such hour.
FindBestShiftHour(hour, optimal) ==
    LET candidates == {h \in 0..(Len(optimal) - 1) : h # hour /\ off_peak_hours(h % 24)}
        least == {h \in candidates : \A g \in candidates : optimal[h + 1] <= optimal[g + 1]}
    IN  IF candidates = {} THEN None
        ELSE Some(CHOOSE h \in least : \A g \in least : h <= g)

\* _calculate_shift_saving: the delta priced at the band it leaves less the
\* band it moves to.
CalculateShiftSaving(delta, hour, shift_to) ==
    delta * (HourBandRate(hour % 24, rate_structure)
                - HourBandRate(shift_to % 24, rate_structure))

\* _identify_peak_shifts, from hour `hour` on.
RECURSIVE IdentifyPeakShifts(_, _, _)
IdentifyPeakShifts(current, optimal, hour) ==
    IF hour >= Len(current) THEN <<>>
    ELSE LET shift_to == FindBestShiftHour(hour, optimal)
             found ==
                 IF AbovePeakThreshold(current, hour)
                        /\ ReducedByOptimal(current, optimal, hour)
                        /\ shift_to # None
                 THEN <<[from_hour |-> hour,
                         to_hour |-> shift_to[1],
                         reduction |-> current[hour + 1] - optimal[hour + 1],
                         saving |-> CalculateShiftSaving(
                                        current[hour + 1] - optimal[hour + 1],
                                        hour, shift_to[1])]>>
                 ELSE <<>>
         IN  found \o IdentifyPeakShifts(current, optimal, hour + 1)

\* The subsystem table of _identify_efficiency_gaps, in its order; an
\* efficiency is in percent.
systems ==
    <<[system |-> "compressor", expected |-> 85, improvement_cost |-> 5000],
      [system |-> "fans", expected |-> 80, improvement_cost |-> 3000],
      [system |-> "heat_exchanger", expected |-> 90, improvement_cost |-> 4000]>>

\* _calculate_system_efficiency and _calculate_efficiency_saving: the baseline
\* estimate of each subsystem the estimator reports, and the yearly saving of
\* bringing it to its target.
CalculateSystemEfficiency(efficiency) == efficiency.baseline
CalculateEfficiencySaving(efficiency, system) == efficiency.saving[system]

\* baseline_efficiency.get(system, 0)
CurrentEff(baseline_efficiency, system) ==
    IF system \in DOMAIN baseline_efficiency THEN baseline_efficiency[system] ELSE 0

\* payback = improvement_cost / potential_saving if potential_saving > 0 else
\* inf, as the pair <<numerator, denominator>>; <<1, 0>> is infinity.
Payback(improvement_cost, potential_saving) ==
    IF potential_saving > 0 THEN <<improvement_cost, potential_saving>> ELSE <<1, 0>>

\* "high" if payback < 2 else "medium" if payback < 4 else "low"
PriorityMut(payback) ==
    IF payback[2] > 0 /\ payback[1] <= 2 * payback[2] THEN "high"
    ELSE IF payback[2] > 0 /\ payback[1] < 4 * payback[2] THEN "medium"
    ELSE "low"
Priority(payback) ==
    IF payback[2] > 0 /\ payback[1] < 2 * payback[2] THEN "high"
    ELSE IF payback[2] > 0 /\ payback[1] < 4 * payback[2] THEN "medium"
    ELSE "low"

\* _identify_efficiency_gaps, from entry i of the table on.
RECURSIVE IdentifyEfficiencyGaps(_, _)
IdentifyEfficiencyGaps(efficiency, i) ==
    IF i > Len(systems) THEN <<>>
    ELSE LET params == systems[i]
             current_eff == CurrentEff(CalculateSystemEfficiency(efficiency), params.system)
             potential_saving == CalculateEfficiencySaving(efficiency, params.system)
             payback == Payback(params.improvement_cost, potential_saving)
             gap ==
                 IF current_eff < params.expected
                 THEN <<[system |-> params.system,
                         current_efficiency |-> current_eff,
                         target_efficiency |-> params.expected,
                         saving |-> potential_saving,
                         payback |-> payback,
                         priority |-> Priority(payback)]>>
                 ELSE <<>>
         IN  gap \o IdentifyEfficiencyGaps(efficiency, i + 1)

PeakShiftRecommendation(shift) ==
    [type |-> "peak_shift",
     from_hour |-> shift.from_hour,
     to_hour |-> shift.to_hour,
     load_reduction |-> shift.reduction,
     cost_saving |-> shift.saving]

EfficiencyRecommendation(gap) ==
    [type |-> "efficiency_improvement",
     system |-> gap.system,
     potential_saving |-> gap.saving,
     payback_period |-> gap.payback,
     priority |-> gap.priority]

\* _generate_recommendations: the peak shifts, then the efficiency gaps.
GenerateRecommendations(current_schedule, optimal_schedule, efficiency) ==
    LET peak_shifts == IdentifyPeakShifts(current_schedule, optimal_schedule.schedule, 0)
        efficiency_gaps == IdentifyEfficiencyGaps(efficiency, 1)
    IN  [i \in 1..Len(peak_shifts) |-> PeakShiftRecommendation(peak_shifts[i])]
            \o [i \in 1..Len(efficiency_gaps) |->
                    EfficiencyRecommendation(efficiency_gaps[i])]

\* What the efficiency estimator may report for a system: every subsystem at
\* its target, or subsystems short of it (or not reported at all) with savings
\* that put the payback under 2, at 2, between 2 and 4, at 4, over 4, or that
\* are not positive.
AtTarget ==
    [baseline |-> [compressor |-> 85, fans |-> 80, heat_exchanger |-> 90],
     saving |-> [compressor |-> 0, fans |-> 0, heat_exchanger |-> 0]]

EfficiencyEstimates ==
    {AtTarget,
     [baseline |-> [compressor |-> 70, heat_exchanger |-> 89],
      saving |-> [compressor |-> 5000, fans |-> 1000, heat_exchanger |-> 0]],
     [baseline |-> [compressor |-> 84, fans |-> 79, heat_exchanger |-> 95],
      saving |-> [compressor |-> 2500, fans |-> 750, heat_exchanger |-> 100]],
     [baseline |-> [compressor |-> 85, fans |-> 0, heat_exchanger |-> 50],
      saving |-> [compressor |-> 100, fans |-> -5, heat_exchanger |-> 500]],
     [baseline |-> [compressor |-> 80, fans |-> 70, heat_exchanger |-> 90],
      saving |-> [compressor |-> 2501, fans |-> 751, heat_exchanger |-> 0]]}

\* optimize_energy_cost, given the forecaster's series, the solver's result
\* and the efficiency estimate.
OptimizeEnergyCost(load_prediction, result, efficiency) ==
    LET optimal == OptimizeOperationSchedule(result)
    IN  IF optimal.status = "error"
        THEN Raised("OptimizationError",
                    "Energy cost optimization failed: Failed to find optimal schedule",
                    <<"get_forecast", "_predict_future_load", "minimize">>)
        ELSE Returned(
               [optimal_schedule |-> optimal.value[1],
                projected_savings |->
                    CalculateProjectedSavings(load_prediction, optimal.value[1]),
                recommendations |->
                    GenerateRecommendations(load_prediction, optimal.value[1],
                                            efficiency)],
               <<"get_forecast", "_predict_future_load", "minimize",
                 "_calculate_projected_savings", "_generate_recommendations">>)

\* _predict_future_load: `if not self.lstm_model` builds a model of input
\* shape (24, 5) and loads models/energy_lstm.h5 into it; the reference is
\* assigned before the load, so a failed load leaves the built model behind.
PredictFutureLoadModel(model, file) ==
    IF model = "none" THEN (IF file THEN "loaded" ELSE "built") ELSE model

\* LSTMModel.predict_next_24h.  A model handed to the constructor returns the
\* forecaster's series; the engine's own model expects 5 features and rejects
\* the 3-feature frame predict_next_24h builds, loaded or not.
PredictNext24h(model, series) ==
    IF model = "provided"
    THEN Returned(series, <<"predict_next_24h">>)
    ELSE Raised("ModelError", "Prediction failed: Expected 5 features, got 3",
                <<"predict_next_24h">>)

\* _predict_future_load
PredictFutureLoad(model, file, series) ==
    IF model = "none" /\ ~file
    THEN Raised("OSError", "No file or directory found at models/energy_lstm.h5",
                <<"load_model">>)
    ELSE PredictNext24h(PredictFutureLoadModel(model, file), series)

\* The handler of optimize_energy_cost around a failed prediction.
PredictionFailed(predicted) ==
    Raised("OptimizationError",
           "Energy cost optimization failed: " \o predicted.message,
           <<"get_forecast", "_predict_future_load">>)

\* optimize_energy_cost on an engine whose model reference is `model`.
OptimizeEnergyCostOn(model, file, series, result, efficiency) ==
    LET predicted == PredictFutureLoad(model, file, series)
    IN  IF predicted.status = "error" THEN PredictionFailed(predicted)
        ELSE OptimizeEnergyCost(predicted.value[1], result, efficiency)

ConfiguredLoads == {0, 50, 100}

OptimizeCall ==
    /\ EnergyIdle
    /\ \E n \in 1..MaxSched, comfort_constraint \in BOOLEAN,
          min_load \in ConfiguredLoads, max_load \in ConfiguredLoads,
          efficiency \in EfficiencyEstimates :
      \E load_prediction \in Schedules(n) :
        /\ min_load <= max_load
        /\ LET constraints ==
                   DefineOptimizationConstraints(min_load, max_load, comfort_constraint)
               bounds == ScheduleBounds(load_prediction, constraints)
           IN  \E result \in Minimize(load_prediction, bounds) :
                 /\ eOp' = [op |-> "optimize_energy_cost",
                            load_prediction |-> load_prediction,
                            constraints |-> constraints,
                            result |-> result,
                            efficiency |-> efficiency]
                 /\ eRet' = OptimizeEnergyCostOn(lstm_model, model_file,
                                                  load_prediction, result, efficiency)
        /\ lstm_model' = PredictFutureLoadModel(lstm_model, model_file)
        /\ UNCHANGED <<model_file, notEnergy>>

\* --- manage_peak_load ---

\* _calculate_optimal_peak_threshold: the highest of the historical peaks.
CalculateOptimalPeakThreshold(historical_peaks) == SeqMax(historical_peaks)

\* _generate_load_reduction_strategies: what to shed to get back under 90 %
\* of the threshold (in tenths of a kW).
GenerateLoadReductionStrategies(current_load, threshold, historical_peaks) ==
    <<[type |-> "load_reduction", reduction |-> 10 * current_load - 9 * threshold]>>

\* `current_load > threshold * 0.9`
ApproachesThresholdMut(current_load, threshold) == 10 * current_load >= 9 * threshold
ApproachesThreshold(current_load, threshold) == 10 * current_load > 9 * threshold

ManagePeakLoad(current_load, threshold_arg, historical_peaks) ==
    LET threshold ==
            IF threshold_arg = None
            THEN CalculateOptimalPeakThreshold(historical_peaks)
            ELSE threshold_arg[1]
    IN  IF ApproachesThreshold(current_load, threshold)
        THEN Returned([alert_level |-> "high",
                       current_load |-> current_load,
                       threshold |-> threshold,
                       recommendations |->
                           GenerateLoadReductionStrategies(
                               current_load, threshold, historical_peaks)],
                      <<"_get_historical_peaks", "_generate_load_reduction_strategies">>)
        ELSE Returned([alert_level |-> "normal",
                       current_load |-> current_load,
                       threshold |-> threshold,
                       recommendations |-> <<>>],
                      <<"_get_historical_peaks">>)

CurrentLoads == {0, 44, 45, 46, 89, 90, 91, 120}
Thresholds == {None, Some(50), Some(100)}
HistoricalPeaks == {<<100>>, <<40, 50>>}

ManagePeakLoadCall ==
    /\ EnergyIdle
    /\ \E current_load \in CurrentLoads, threshold \in Thresholds,
          historical_peaks \in HistoricalPeaks :
        /\ eOp' = [op |-> "manage_peak_load",
                   current_load |-> current_load,
                   threshold |-> threshold,
                   historical_peaks |-> historical_peaks]
        /\ eRet' = ManagePeakLoad(current_load, threshold, historical_peaks)
        /\ UNCHANGED <<lstm_model, model_file, notEnergy>>

InitEnergy ==
    /\ eOp = [op |-> "none"]
    /\ eRet = NoCall
    /\ lstm_model \in {"none", "provided"}
    /\ model_file \in BOOLEAN
    /\ cOp = [op |-> "none"]
    /\ cRet = NoCall
    /\ calls = <<>>
    /\ api = NoRequest
    /\ rt = NoProcessing
    /\ ServicesUnused
    /\ RealTimeUnused

\* The caller takes the result; the engine object lives on.
EnergyResultTaken ==
    /\ ~EnergyIdle
    /\ eOp' = [op |-> "none"]
    /\ eRet' = NoCall
    /\ UNCHANGED <<lstm_model, model_file, notEnergy>>

NextEnergy ==
    \/ AnalyzeCall
    \/ OptimizeCall
    \/ ManagePeakLoadCall
    \/ EnergyResultTaken

SpecEnergy == InitEnergy /\ [][NextEnergy]_vars

(***************************************************************************)
(* EnergyOptimizer: concurrent invocations on one engine                   *)
(*                                                                         *)
(* Every caller has its own invocation in flight from the start, with its  *)
(* own input.  An invocation advances one statement of                     *)
(* _predict_future_load, or one awaited collaborator call, at a time.      *)
(***************************************************************************)
MaxCallers == 2

Callers == 1..MaxCallers

\* What a caller may pass: the forecaster's series for its system, or the
\* historical series of its system.
Invocations ==
    [op : {"optimize_energy_cost"}, input : {<<50>>, <<100, 150>>}]
        \cup [op : {"analyze_energy_consumption"}, input : {HourlySeries(14, 2)}]

\* The frame of an invocation: where it is, the prediction it holds, the
\* solver's answer, and what it returned or raised.
Invoked(inv) ==
    [op |-> inv.op, input |-> inv.input,
     pc |-> IF inv.op = "optimize_energy_cost" THEN "get_forecast"
            ELSE "get_system_status",
     load_prediction |-> None, result |-> None, ret |-> NoCall]

At(c, pc) == calls # <<>> /\ calls[c].pc = pc

Finish(c, ret) == calls' = [calls EXCEPT ![c].pc = "done", ![c].ret = ret]

\* await self.weather.get_forecast(system_id, days=1)
GetForecast(c) ==
    /\ At(c, "get_forecast")
    /\ calls' = [calls EXCEPT ![c].pc = "check_model"]
    /\ UNCHANGED <<lstm_model, model_file, notCalls>>

\* if not self.lstm_model
CheckModel(c) ==
    /\ At(c, "check_model")
    /\ calls' = [calls EXCEPT ![c].pc =
                    IF lstm_model = "none" THEN "build_model" ELSE "predict"]
    /\ UNCHANGED <<lstm_model, model_file, notCalls>>

\* self.lstm_model = LSTMModel(input_shape=(24, 5))
BuildModel(c) ==
    /\ At(c, "build_model")
    /\ lstm_model' = "built"
    /\ calls' = [calls EXCEPT ![c].pc = "load_model"]
    /\ UNCHANGED <<model_file, notCalls>>

\* self.lstm_model.load_model('models/energy_lstm.h5'), on the model the
\* engine refers to now.
LoadModel(c) ==
    /\ At(c, "load_model")
    /\ IF model_file
       THEN /\ lstm_model' = "loaded"
            /\ calls' = [calls EXCEPT ![c].pc = "predict"]
       ELSE /\ Finish(c, PredictionFailed(PredictFutureLoad("none", FALSE, calls[c].input)))
            /\ UNCHANGED lstm_model
    /\ UNCHANGED <<model_file, notCalls>>

\* await self.lstm_model.predict_next_24h(features, weather_forecast)
Predict(c) ==
    /\ At(c, "predict")
    /\ LET predicted == PredictNext24h(lstm_model, calls[c].input)
       IN  IF predicted.status = "error"
           THEN Finish(c, PredictionFailed(predicted))
           ELSE calls' = [calls EXCEPT ![c].pc = "minimize",
                                       ![c].load_prediction = Some(predicted.value[1])]
    /\ UNCHANGED <<lstm_model, model_file, notCalls>>

\* The rest of optimize_energy_cost: constraints, solver, savings and
\* recommendations (every subsystem of the callers' systems is at its target).
OptimizeSchedule(c) ==
    /\ At(c, "minimize")
    /\ LET load_prediction == calls[c].load_prediction[1]
           constraints == DefineOptimizationConstraints(0, 100, TRUE)
           bounds == ScheduleBounds(load_prediction, constraints)
       IN  \E result \in Minimize(load_prediction, bounds) :
               calls' = [calls EXCEPT ![c].pc = "done",
                                      ![c].result = Some(result),
                                      ![c].ret = OptimizeEnergyCost(load_prediction, result,
                                                                 AtTarget)]
    /\ UNCHANGED <<lstm_model, model_file, notCalls>>

\* await self.db.get_system_status(...)
GetSystemStatus(c) ==
    /\ At(c, "get_system_status")
    /\ calls' = [calls EXCEPT ![c].pc = "analyse"]
    /\ UNCHANGED <<lstm_model, model_file, notCalls>>

\* The rest of analyze_energy_consumption, on the invocation's own frame.
Analyse(c) ==
    /\ At(c, "analyse")
    /\ Finish(c, AnalyzeEnergyConsumption(calls[c].input))
    /\ UNCHANGED <<lstm_model, model_file, notCalls>>

InitConcurrent ==
    /\ eOp = [op |-> "none"]
    /\ eRet = NoCall
    /\ lstm_model \in {"none", "provided"}
    /\ model_file \in BOOLEAN
    /\ cOp = [op |-> "none"]
    /\ cRet = NoCall
    /\ calls \in {[c \in Callers |-> Invoked(inv[c])] : inv \in [Callers -> Invocations]}
    /\ api = NoRequest
    /\ rt = NoProcessing
    /\ ServicesUnused
    /\ RealTimeUnused

NextConcurrent ==
    \E c \in Callers :
        \/ GetForecast(c)
        \/ CheckModel(c)
        \/ BuildModel(c)
        \/ LoadModel(c)
        \/ Predict(c)
        \/ OptimizeSchedule(c)
        \/ GetSystemStatus(c)
        \/ Analyse(c)

SpecConcurrent == InitConcurrent /\ [][NextConcurrent]_vars

(***************************************************************************)
(* EnergyOptimizer: properties                                             *)
(***************************************************************************)
Optimized == eOp.op = "optimize_energy_cost" /\ eRet.status = "ok"
Analysed == eOp.op = "analyze_energy_consumption" /\ eRet.status = "ok"

\* C1: whenever optimize_energy_cost returns a result, every hour of the
\* returned optimal schedule has a load within [min_load, max_load].
C1_ScheduleWithinBounds ==
    Optimized =>
        LET schedule == eRet.value[1].optimal_schedule.schedule
        IN  \A h \in 1..Len(schedule) :
                /\ eOp.constraints.min_load <= schedule[h]
                /\ schedule[h] <= eOp.constraints.max_load

\* C1 witness: a result was returned for a prediction that itself has an hour
\* above max_load and an hour below min_load.
C1_Witness ==
    /\ Optimized
    /\ \E h \in 1..Len(eOp.load_prediction) :
           eOp.load_prediction[h] > eOp.constraints.max_load
    /\ \E h \in 1..Len(eOp.load_prediction) :
           eOp.load_prediction[h] < eOp.constraints.min_load

\* The cost the rate table gives a series when every point is priced by the
\* hour of day of its timestamp.
RECURSIVE TimestampBandCost(_, _)
TimestampBandCost(series, i) ==
    IF i > Len(series) THEN 0
    ELSE series[i].energy_consumption
             * HourBandRate(TimestampHour(series[i].timestamp), rate_structure)
         + TimestampBandCost(series, i + 1)

\* C2: each point's consumption is priced at the rate of the band containing
\* the hour of day of its timestamp, total_cost is the sum of the band costs
\* plus max(power) * demand_charge, and 24 hourly points (hours 0..23) of
\* 100 kWh / 100 kW cost 1857.00.
C2_CostByTimestampBand ==
    Analysed =>
        /\ eRet.value[1].total_cost =
               TimestampBandCost(eOp.series, 1)
                   + SeqMax(Column(eOp.series, "active_power")) * rate_structure.demand_charge
        /\ (eOp.series = HourlySeries(0, 24) => eRet.value[1].total_cost = 185700)

ExactlyOne(a, b, c) ==
    \/ a /\ ~b /\ ~c
    \/ ~a /\ b /\ ~c
    \/ ~a /\ ~b /\ c

\* C3: the band classification is a partition of the day: every hour 0..23 is
\* in exactly one of peak, mid-peak, off-peak, so every point of an analysed
\* series is counted in exactly one band cost.
C3_BandsPartitionDay ==
    /\ \A h \in 0..23 : ExactlyOne(peak_hours(h), mid_peak_hours(h), off_peak_hours(h))
    /\ Analysed =>
           /\ \A i \in 1..Len(eOp.series) :
                  ExactlyOne(peak_hours(RowHour(eOp.series, i)),
                             mid_peak_hours(RowHour(eOp.series, i)),
                             off_peak_hours(RowHour(eOp.series, i)))
           /\ MaskedConsumption(eOp.series, [h \in 0..23 |-> peak_hours(h)], 1)
                  + MaskedConsumption(eOp.series, [h \in 0..23 |-> mid_peak_hours(h)], 1)
                  + MaskedConsumption(eOp.series, [h \in 0..23 |-> off_peak_hours(h)], 1)
              = eRet.value[1].total_consumption

\* C3 witness: a series of several points was analysed and costed.
C3_Witness == Analysed /\ Len(eOp.series) >= 2 /\ eRet.value[1].total_cost > 0

\* C4: analyze_energy_consumption over an empty series raises the
\* no-historical-data OptimizationError, returns no EnergyMetrics and stops
\* before any frame is built or aggregated.
C4_EmptySeriesRaises ==
    (eOp.op = "analyze_energy_consumption" /\ eOp.series = <<>>) =>
        /\ eRet.status = "error"
        /\ eRet.error = "OptimizationError"
        /\ eRet.message = "Energy consumption analysis failed: No historical data available"
        /\ eRet.value = None
        /\ eRet.trace = <<"get_system_status">>

\* C4 witness: the call over an empty series has raised.
C4_Witness ==
    /\ eOp.op = "analyze_energy_consumption"
    /\ eOp.series = <<>>
    /\ eRet.status = "error"

\* C5: when the solver reports non-convergence optimize_energy_cost raises
\* OptimizationError and returns nothing; a result is returned only when the
\* solver reported success.
C5_NonConvergenceRaises ==
    eOp.op = "optimize_energy_cost" =>
        /\ ~eOp.result.success =>
               /\ eRet.status = "error"
               /\ eRet.error = "OptimizationError"
               /\ eRet.value = None
        /\ eRet.status = "ok" => eOp.result.success

\* C5 witness: the solver failed at an iterate within the bounds and the call
\* raised.
C5_Witness ==
    /\ eOp.op = "optimize_energy_cost"
    /\ ~eOp.result.success
    /\ InBounds(eOp.result.x, ScheduleBounds(eOp.load_prediction, eOp.constraints))
    /\ eRet.status = "error"

\* C7: manage_peak_load answers "high", with the load-reduction strategies,
\* exactly when current_load > 0.9 * threshold, and otherwise "normal" with no
\* recommendations; the returned current_load and threshold are those
\* compared, the threshold being the caller's when supplied.
C7_PeakLoadAlert ==
    eOp.op = "manage_peak_load" =>
        /\ eRet.status = "ok"
        /\ LET r == eRet.value[1]
           IN  /\ r.current_load = eOp.current_load
               /\ eOp.threshold # None => r.threshold = eOp.threshold[1]
               /\ r.alert_level \in {"high", "normal"}
               /\ r.alert_level = "high" <=> 10 * r.current_load > 9 * r.threshold
               /\ r.alert_level = "high" =>
                      r.recommendations =
                          GenerateLoadReductionStrategies(
                              r.current_load, r.threshold, eOp.historical_peaks)
               /\ r.alert_level = "normal" => r.recommendations = <<>>

\* C7 witness: the load is exactly 90 % of the caller's threshold, and the
\* answer is "normal".
C7_Witness ==
    /\ eOp.op = "manage_peak_load"
    /\ eOp.threshold # None
    /\ 10 * eOp.current_load = 9 * eOp.threshold[1]
    /\ eRet.status = "ok"
    /\ eRet.value[1].alert_level = "normal"

(***************************************************************************)
(* ComfortOptimizer                                                        *)
(*                                                                         *)
(* Temperatures are in 1/1000 degC, air speed in 1/1000 m/s, humidity in   *)
(* whole percent, CO2 in whole ppm.  PMV, PPD and the score are in 1/1000; *)
(* the air-quality index is in 1/600 of a point, which keeps the linear    *)
(* interpolation over the 600 ppm wide band exact.                         *)
(***************************************************************************)

\* floor(a * b / c) for c > 0, without forming a * b: |a| may be large, b small.
MulDiv(a, b, c) == (a \div c) * b + ((a % c) * b) \div c
FMul(a, b) == MulDiv(a, b, 1000)

\* np.sqrt: the largest s in lo..hi with s * s <= x.
RECURSIVE IsqrtBetween(_, _, _)
IsqrtBetween(x, lo, hi) ==
    IF lo = hi THEN lo
    ELSE LET mid == (lo + hi + 1) \div 2
         IN  IF mid * mid <= x THEN IsqrtBetween(x, mid, hi)
             ELSE IsqrtBetween(x, lo, mid - 1)
Isqrt(x) == IsqrtBetween(x, 0, 46340)

\* np.exp of x / 1000, in 1/10000: the power series on the fractional part,
\* times e for each unit of the integer part; 0 below exp(-14).
RECURSIVE ExpSeries(_, _, _)
ExpSeries(term, r, n) ==
    IF term = 0 THEN 0 ELSE term + ExpSeries(MulDiv(term, r, 1000 * n), r, n + 1)

RECURSIVE ExpPow(_, _)
ExpPow(v, q) ==
    IF q = 0 THEN v
    ELSE IF q > 0 THEN ExpPow(MulDiv(v, 27183, 10000), q - 1)
    ELSE ExpPow(MulDiv(v, 10000, 27183), q + 1)

Exp(x) == IF x < -14000 THEN 0 ELSE ExpPow(ExpSeries(10000, x % 1000, 1), x \div 1000)

\* Comfort parameters and optimal ranges set by the constructor.
temp_weight == 400
humidity_weight == 300
air_quality_weight == 300
metabolic_rate == 1200
clothing_insulation == 1000
optimal_temp_range == <<20000, 24000>>
optimal_humidity_range == <<40, 60>>
optimal_co2_range == <<400, 1000>>

\* ((t + 273) ** 4) / 1e8, t in 1/1000 degC.
KelvinPow4(t) ==
    LET k == (t + 273000) \div 100
        k2 == FMul(k, k)
    IN  FMul(k2, k2)

\* tcl of _calculate_pmv.
ClothingSurfaceTemp(ta, clo) ==
    LET ICL == MulDiv(155, clo, 1000)
    IN  ta + MulDiv(35500 - ta, 1000, FMul(3500, FMul(6450, ICL) + 100))

\* _calculate_pmv: the PMV, or the ZeroDivisionError of the radiative
\* coefficient hr when tcl = tr.
CalculatePmv(ta, tr, rh, va, met, clo) ==
    LET M == MulDiv(met, 58150, 1000)
        ICL == MulDiv(155, clo, 1000)
        pa == rh * Exp(16654 - (403018300 \div ((ta + 235000) \div 10)))
        fcl == 1050 + FMul(645, ICL)
        hc == FMul(12100, Isqrt(va * 1000))
        tcl == ClothingSurfaceTemp(ta, clo)
        d4 == KelvinPow4(tcl) - KelvinPow4(tr)
        L == M - 0
             - FMul(FMul(3960, fcl), d4)
             - FMul(FMul(fcl, hc), tcl - ta)
             - FMul(5730 - MulDiv(M, 7, 1000) - pa, 3050)
             - FMul(420, M - 58150)
             - FMul(5870 - pa, MulDiv(M, 173, 10000))
             - FMul(MulDiv(M, 14, 10000), 34000 - ta)
        \* 0.303 * exp(-0.036 * M) + 0.028, in 1/1000000
        pmv == MulDiv(303, Exp(-MulDiv(M, 36, 1000)), 10) + 28000
    IN  IF tcl = tr
        THEN [raised |-> TRUE, value |-> 0]
        ELSE [raised |-> FALSE, value |-> MulDiv(L, pmv, 1000) \div 1000]

\* The PPD formula without its quadratic term.
CalculatePpdMut(pmv) ==
    LET p2 == FMul(pmv, pmv)
    IN  IF p2 > 100000 THEN 100000
        ELSE LET p4 == FMul(p2, p2)
             IN  100000 - (95 * Exp(-MulDiv(p4, 3353, 100000))) \div 10

\* 100 - 95 * exp(-0.03353 * pmv**4 - 0.2179 * pmv**2).  Beyond |pmv| = 10
\* the exponential is below 1e-150 and the difference is 100.0.
CalculatePpd(pmv) ==
    LET p2 == FMul(pmv, pmv)
    IN  IF p2 > 100000 THEN 100000
        ELSE LET p4 == FMul(p2, p2)
             IN  100000 - (95 * Exp(-MulDiv(p4, 3353, 100000) - MulDiv(p2, 2179, 10000)))
                              \div 10

\* _calculate_air_quality_index, in 1/600 of a point.
AirQualityIndexMut(co2_level) ==
    IF co2_level <= optimal_co2_range[1] THEN 100 * 600
    ELSE IF co2_level >= optimal_co2_range[2] THEN 0
    ELSE 100 * (co2_level - optimal_co2_range[1])
AirQualityIndex(co2_level) ==
    IF co2_level <= optimal_co2_range[1] THEN 100 * 600
    ELSE IF co2_level >= optimal_co2_range[2] THEN 0
    ELSE 100 * ((optimal_co2_range[2] - optimal_co2_range[1])
                    - (co2_level - optimal_co2_range[1]))

\* min(abs(x - range[0]), abs(x - range[1]))
RangeDeviation(x, range) == Min2(Abs(x - range[1]), Abs(x - range[2]))

\* calculate_comfort_metrics
CalculateComfortMetrics(temperature, humidity, co2_level, air_speed, mean_radiant_temp) ==
    LET mrt == IF mean_radiant_temp # None THEN mean_radiant_temp[1] ELSE temperature
        pmv == CalculatePmv(temperature, mrt, humidity, air_speed,
                            metabolic_rate, clothing_insulation)
    IN  IF pmv.raised
        THEN Raised("OptimizationError",
                    "Failed to calculate comfort metrics: float division by zero",
                    <<"_calculate_pmv">>)
        ELSE Returned([pmv |-> pmv.value,
                       ppd |-> CalculatePpd(pmv.value),
                       co2_level |-> co2_level,
                       air_quality |-> AirQualityIndex(co2_level),
                       temperature_deviation |->
                           RangeDeviation(temperature, optimal_temp_range),
                       humidity_deviation |->
                           RangeDeviation(humidity, optimal_humidity_range)],
                      <<"_calculate_pmv", "_calculate_air_quality_index">>)

\* _calculate_comfort_score
CalculateComfortScore(metrics) ==
    LET pmv_score == 100000 - MulDiv(Abs(metrics.pmv), 100, 3)
        ppd_score == 100000 - metrics.ppd
        air_score == MulDiv(metrics.air_quality, 1000, 600)
    IN  FMul(pmv_score, temp_weight)
        + FMul(ppd_score, humidity_weight)
        + FMul(air_score, air_quality_weight)

Temperatures == {0, 10000, 19000, 20000, 22000, 24000, 27000, 35500}
Humidities == {0, 1, 30, 40, 50, 60, 75}
Co2Levels == {300, 400, 401, 700, 999, 1000, 1200}
AirSpeeds == {0, 100, 1000}
RadiantTemps == {None, Some(22000)}

ComfortIdle == cOp.op = "none"

CalculateComfortMetricsCall ==
    \E temperature \in Temperatures, humidity \in Humidities, co2_level \in Co2Levels,
       air_speed \in AirSpeeds, mean_radiant_temp \in RadiantTemps :
        /\ ComfortIdle
        /\ cOp' = [op |-> "calculate_comfort_metrics",
                   temperature |-> temperature,
                   humidity |-> humidity,
                   co2_level |-> co2_level,
                   air_speed |-> air_speed,
                   mean_radiant_temp |-> mean_radiant_temp]
        /\ cRet' = CalculateComfortMetrics(temperature, humidity, co2_level,
                                           air_speed, mean_radiant_temp)
        /\ UNCHANGED notComfort

\* The caller hands the metrics it was given to calculate_comfort_score.
CalculateComfortScoreCall ==
    /\ cOp.op = "calculate_comfort_metrics"
    /\ cRet.status = "ok"
    /\ cOp' = [op |-> "calculate_comfort_score", metrics |-> cRet.value[1], reading |-> cOp]
    /\ cRet' = Returned(CalculateComfortScore(cRet.value[1]), <<"_calculate_comfort_score">>)
    /\ UNCHANGED notComfort

\* --- optimize_comfort ---

\* _get_default_preferences
DefaultPreferences ==
    [preferred_temperature |-> 22000, preferred_humidity |-> 50,
     temperature_tolerance |-> 2000, humidity_tolerance |-> 10,
     air_quality_sensitivity |-> "medium", energy_saving_priority |-> "medium"]

\* rec.get("energy_impact", 0)
DeclaredEnergyImpact(rec) == IF "energy_impact" \in DOMAIN rec THEN rec.energy_impact ELSE 0

\* `if energy_constraint and ...`: None and 0 are both false.
ConstraintApplies(energy_constraint) ==
    energy_constraint # None /\ energy_constraint[1] # 0

ViolatesEnergyConstraint(rec, energy_constraint) ==
    ConstraintApplies(energy_constraint)
        /\ DeclaredEnergyImpact(rec) > energy_constraint[1]

\* _check_preference_compliance: the recommended setpoint stays within the
\* user's tolerance of the preferred temperature.
CheckPreferenceCompliance(rec, user_prefs) ==
    Abs(rec.value - user_prefs.preferred_temperature) <= user_prefs.temperature_tolerance

\* rec["validated"] = True
MarkValidated(rec) == ("validated" :> TRUE) @@ rec

\* _validate_recommendations
RECURSIVE ValidateRecommendations(_, _, _, _)
ValidateRecommendations(recommendations, metrics, user_prefs, energy_constraint) ==
    IF recommendations = <<>> THEN <<>>
    ELSE LET rec == Head(recommendations)
             rest == ValidateRecommendations(Tail(recommendations), metrics,
                                             user_prefs, energy_constraint)
         IN  IF ViolatesEnergyConstraint(rec, energy_constraint) THEN rest
             ELSE IF ~CheckPreferenceCompliance(rec, user_prefs) THEN rest
             ELSE <<MarkValidated(rec)>> \o rest

\* _simulate_recommendations_impact: the metrics re-evaluated at the setpoint
\* of the last validated recommendation.
SimulateRecommendationsImpact(current_conditions, current_metrics, recommendations) ==
    IF recommendations = <<>> THEN Returned(current_metrics, <<>>)
    ELSE CalculateComfortMetrics(recommendations[Len(recommendations)].value,
                                 current_conditions.humidity,
                                 current_conditions.co2_level,
                                 current_conditions.air_speed, None)

\* _estimate_energy_impact; a recommendation that declares no impact counts 0.
RECURSIVE EstimateEnergyImpact(_)
EstimateEnergyImpact(recommendations) ==
    IF recommendations = <<>> THEN 0
    ELSE DeclaredEnergyImpact(Head(recommendations))
         + EstimateEnergyImpact(Tail(recommendations))

RequiredFields == {"temperature", "humidity", "co2_level", "air_speed"}

\* optimize_comfort, given the stored preferences and the candidates of the
\* recommendation source.
OptimizeComfort(current_conditions, user_prefs, recommendations, energy_constraint) ==
    IF RequiredFields \ DOMAIN current_conditions # {}
    THEN Raised("OptimizationError", "Comfort optimization failed: KeyError",
                <<"_get_user_preferences", "get_current_weather">>)
    ELSE
    LET computed == CalculateComfortMetrics(current_conditions.temperature,
                                            current_conditions.humidity,
                                            current_conditions.co2_level,
                                            current_conditions.air_speed, None)
    IN  IF computed.status = "error"
        THEN Raised("OptimizationError",
                    "Comfort optimization failed: Failed to calculate comfort metrics",
                    <<"_get_user_preferences", "get_current_weather",
                      "calculate_comfort_metrics">>)
        ELSE
        LET metrics == computed.value[1]
            validated == ValidateRecommendations(recommendations, metrics,
                                                 user_prefs, energy_constraint)
            simulated == SimulateRecommendationsImpact(current_conditions, metrics, validated)
        IN  IF simulated.status = "error"
            THEN Raised("OptimizationError",
                        "Comfort optimization failed: Failed to calculate comfort metrics",
                        <<"_get_user_preferences", "get_current_weather",
                          "calculate_comfort_metrics", "generate_hvac_optimization",
                          "_validate_recommendations", "save_optimization_result">>)
            ELSE Returned(
                   [comfort_score |-> CalculateComfortScore(metrics),
                    recommendations |-> validated,
                    expected_improvement |->
                        CalculateComfortScore(simulated.value[1])
                            - CalculateComfortScore(metrics),
                    energy_impact |-> EstimateEnergyImpact(validated)],
                   <<"_get_user_preferences", "get_current_weather",
                     "calculate_comfort_metrics", "generate_hvac_optimization",
                     "_validate_recommendations", "save_optimization_result">>)

Readings ==
    {[temperature |-> 20000, humidity |-> 50, co2_level |-> 400, air_speed |-> 100],
     [temperature |-> 27000, humidity |-> 1, co2_level |-> 1200, air_speed |-> 1000],
     [temperature |-> 35500, humidity |-> 50, co2_level |-> 700, air_speed |-> 100],
     [temperature |-> 20000, co2_level |-> 400, air_speed |-> 100]}

StoredPreferences ==
    {DefaultPreferences,
     [DefaultPreferences EXCEPT !.preferred_temperature = 25000,
                                !.temperature_tolerance = 1000]}

Candidates ==
    [action : {"adjust_temperature"}, value : {18000, 23000, 26000}]
        \cup [action : {"adjust_temperature"}, value : {18000, 23000, 26000},
              energy_impact : {5, 10}]

EnergyConstraints == {None, Some(0), Some(5), Some(-5)}

OptimizeComfortCall ==
    \E current_conditions \in Readings, user_prefs \in StoredPreferences,
       recommendations \in SeqsUpTo(Candidates, MaxRecs),
       energy_constraint \in EnergyConstraints :
        /\ ComfortIdle
        /\ cOp' = [op |-> "optimize_comfort",
                   current_conditions |-> current_conditions,
                   user_prefs |-> user_prefs,
                   recommendations |-> recommendations,
                   energy_constraint |-> energy_constraint]
        /\ cRet' = OptimizeComfort(current_conditions, user_prefs,
                                   recommendations, energy_constraint)
        /\ UNCHANGED notComfort

\* The PPD statement of calculate_comfort_metrics applied to a PMV value.
PmvValues == {-262000, -10000, -3000, -1000, -500, -100, 0,
              100, 500, 1000, 3000, 10000, 262000}

CalculatePpdCall ==
    \E pmv \in PmvValues :
        /\ ComfortIdle
        /\ cOp' = [op |-> "ppd", pmv |-> pmv]
        /\ cRet' = Returned(CalculatePpd(pmv), <<>>)
        /\ UNCHANGED notComfort

ComfortResultTaken ==
    /\ ~ComfortIdle
    /\ cOp' = [op |-> "none"]
    /\ cRet' = NoCall
    /\ UNCHANGED notComfort

InitComfort ==
    /\ eOp = [op |-> "none"]
    /\ eRet = NoCall
    /\ lstm_model = "none"
    /\ model_file = FALSE
    /\ cOp = [op |-> "none"]
    /\ cRet = NoCall
    /\ calls = <<>>
    /\ api = NoRequest
    /\ rt = NoProcessing
    /\ ServicesUnused
    /\ RealTimeUnused

NextComfort ==
    \/ CalculateComfortMetricsCall
    \/ CalculateComfortScoreCall
    \/ OptimizeComfortCall
    \/ CalculatePpdCall
    \/ ComfortResultTaken

SpecComfort == InitComfort /\ [][NextComfort]_vars

(***************************************************************************)
(* ComfortOptimizer: properties                                            *)
(***************************************************************************)
MetricsComputed == cOp.op = "calculate_comfort_metrics" /\ cRet.status = "ok"
ComfortOptimized == cOp.op = "optimize_comfort" /\ cRet.status = "ok"

\* C6: whenever an energy_constraint value is given to optimize_comfort (any
\* number, 0 included), no returned recommendation declares an energy_impact
\* greater than it.
C6_EnergyConstraintRespected ==
    (ComfortOptimized /\ cOp.energy_constraint # None) =>
        \A i \in 1..Len(cRet.value[1].recommendations) :
            DeclaredEnergyImpact(cRet.value[1].recommendations[i])
                <= cOp.energy_constraint[1]

\* C8: the air-quality index is 100 up to 400 ppm, 0 from 1000 ppm, and the
\* linear interpolation 100 * (1000 - co2) / 600 in between (50 at 700 ppm);
\* it is within [0, 100] and non-increasing in co2.
C8_AirQualityIndex ==
    MetricsComputed =>
        LET co2 == cOp.co2_level
            air_quality == cRet.value[1].air_quality
        IN  /\ co2 <= 400 => air_quality = 100 * 600
            /\ co2 >= 1000 => air_quality = 0
            /\ (400 < co2 /\ co2 < 1000) => air_quality = 100 * (1000 - co2)
            /\ co2 = 700 => air_quality = 50 * 600
            /\ 0 <= air_quality /\ air_quality <= 100 * 600
            /\ \A lower \in Co2Levels :
                   lower <= co2 => AirQualityIndex(lower) >= air_quality

\* C8 witness: metrics were computed for a CO2 level strictly inside the band.
C8_Witness == MetricsComputed /\ cOp.co2_level = 700 /\ cRet.value[1].air_quality = 30000

\* The distance from x to the band [lo, hi]: 0 inside it.
BandDistance(x, lo, hi) == IF x < lo THEN lo - x ELSE IF x > hi THEN x - hi ELSE 0

\* C9: temperature_deviation is 0 inside [20, 24] and otherwise the distance to
\* the nearest band edge; humidity_deviation likewise for [40, 60].
C9_DeviationZeroInsideBand ==
    MetricsComputed =>
        /\ cRet.value[1].temperature_deviation = BandDistance(cOp.temperature, 20000, 24000)
        /\ cRet.value[1].humidity_deviation = BandDistance(cOp.humidity, 40, 60)

\* C10: for every ComfortMetrics value calculate_comfort_metrics produces, the
\* comfort score is within [0, 100].
C10_ScoreWithinRange ==
    cOp.op = "calculate_comfort_score" =>
        /\ 0 <= cRet.value[1]
        /\ cRet.value[1] <= 100000

C12_ComfortableReadingScoresHigh ==
    (/\ cOp.op = "calculate_comfort_score"
     /\ cOp.reading.temperature = 20000
     /\ cOp.reading.humidity = 50
     /\ cOp.reading.co2_level = 400
     /\ cOp.reading.air_speed = 100
     /\ cOp.reading.mean_radiant_temp = None)
        => cRet.value[1] > 90000

\* A series whose points all have one power value and one consumption value.
Uniform(series) ==
    /\ series # <<>>
    /\ \A i \in 1..Len(series) :
           /\ series[i].active_power = series[1].active_power
           /\ series[i].energy_consumption = series[1].energy_consumption

\* C13 as stated: for every non-empty uniform series of n points,
\* analyze_energy_consumption returns base_load = peak_demand =
\* total_consumption / n.  (base_load is held in tenths.)
C13_UniformSeriesAllEqual ==
    (Analysed /\ Uniform(eOp.series)) =>
        /\ eRet.value[1].base_load = 10 * eRet.value[1].peak_demand
        /\ eRet.value[1].peak_demand * Len(eOp.series) = eRet.value[1].total_consumption

\* C13 amended: for every non-empty uniform series of n points with power
\* value p and consumption value c, base_load = peak_demand = p and
\* total_consumption / n = c; the three agree when p = c.
C13_UniformSeriesByColumn ==
    (Analysed /\ Uniform(eOp.series)) =>
        LET n == Len(eOp.series)
            p == eOp.series[1].active_power
            c == eOp.series[1].energy_consumption
        IN  /\ eRet.value[1].base_load = 10 * p
            /\ eRet.value[1].peak_demand = p
            /\ eRet.value[1].total_consumption = n * c
            /\ p = c => /\ eRet.value[1].base_load = 10 * eRet.value[1].peak_demand
                        /\ eRet.value[1].peak_demand * n = eRet.value[1].total_consumption

\* C13 witness: a uniform series of several points whose power and
\* consumption values differ has been analysed.
C13_Witness ==
    /\ Analysed /\ Uniform(eOp.series) /\ Len(eOp.series) = 2
    /\ eOp.series[1].active_power = 50 /\ eOp.series[1].energy_consumption = 200
    /\ eRet.value[1].base_load = 500 /\ eRet.value[1].total_consumption = 400

\* C14: optimize_comfort called with readings that lack a required field
\* (temperature, humidity, co2_level, air_speed) fails with an error of type
\* ComfortOptimizationError, and that call validates, stores and returns no
\* recommendation.
C14_MissingFieldRaisesComfortError ==
    (cOp.op = "optimize_comfort" /\ RequiredFields \ DOMAIN cOp.current_conditions # {}) =>
        /\ cRet.status = "error"
        /\ cRet.error = "ComfortOptimizationError"
        /\ cRet.value = <<>>
        /\ \A i \in 1..Len(cRet.trace) :
               cRet.trace[i] \notin {"_validate_recommendations", "save_optimization_result"}

\* C15: every public engine operation leaves the engine's own state as it was
\* at construction.  The rate table, the load and temperature bounds, the
\* comfort weights and the optimal ranges are assigned by the constructors
\* only; the one field an operation assigns is the model reference, so the
\* claim is that no step changes it.
C15_EngineStateUnchanged == [][lstm_model' = lstm_model]_vars

\* The model reference the engine was constructed with: an operation never
\* makes it "provided" and never changes it once it is.
Constructed == IF lstm_model = "provided" THEN "provided" ELSE "none"

\* What invocation c returns when it is the only one running on the engine
\* as constructed (with the solver answering as it did).
Alone(c) ==
    IF calls[c].op = "analyze_energy_consumption"
    THEN AnalyzeEnergyConsumption(calls[c].input)
    ELSE OptimizeEnergyCostOn(Constructed, model_file, calls[c].input,
                              IF calls[c].result = None
                              THEN [x |-> <<>>, success |-> FALSE, fun |-> 0]
                              ELSE calls[c].result[1],
                              AtTarget)

\* C16: in every interleaving of concurrent invocations on one engine, each
\* invocation, given its own input series, returns the result (or raises the
\* error) it would if it ran alone.
C16_ConcurrentAsAlone ==
    calls # <<>> =>
        \A c \in Callers : calls[c].pc = "done" => calls[c].ret = Alone(c)

(***************************************************************************)
(* HTTP API: token-protected endpoints (src/api)                           *)
(*                                                                         *)
(* A request is handled in one action: the OAuth2 dependency, the endpoint *)
(* body with its try / except, and the application's exception handlers.   *)
(***************************************************************************)

\* raise HTTPException(status_code=..., detail=...) and APIError(...)
HTTPException(status_code, detail) ==
    [class |-> "HTTPException", status_code |-> status_code, detail |-> detail]
APIError(status_code, detail) ==
    [class |-> "APIError", status_code |-> status_code, detail |-> detail]

\* The Authorization header: absent, or a bearer token that jwt.decode
\* rejects, finds expired, decodes to an empty payload, or accepts.
Tokens == {None, Some("invalid"), Some("expired"), Some("empty_payload"), Some("valid")}

\* OAuth2PasswordBearer: no bearer token raises 401 before the endpoint runs.
OAuth2Scheme(token) ==
    IF token = None
    THEN [raised |-> TRUE, exc |-> HTTPException(401, "Not authenticated")]
    ELSE [raised |-> FALSE, token |-> token[1]]

\* validate_token
ValidateToken(token) ==
    IF token \in {"invalid", "expired"}
    THEN [raised |-> TRUE, exc |-> HTTPException(401, "Could not validate credentials")]
    ELSE IF token = "empty_payload"
    THEN [raised |-> TRUE, exc |-> HTTPException(401, "Invalid token")]
    ELSE [raised |-> FALSE, payload |-> "payload"]

\* handle_api_error
HandleApiError(error, operation) ==
    IF error.class = "APIError" THEN error ELSE APIError(500, error.detail)

\* The endpoints that call validate_token, with what their `except Exception`
\* clause raises: a new HTTPException(500), or handle_api_error(e, ...).
Endpoints ==
    [path : {"temperature/predict", "temperature/train", "temperature/history",
             "temperature/current", "monitoring/system"},
     on_error : {"HTTPException500"}]
    \cup
    [path : {"temperature/batch", "monitoring/metrics", "weather/current",
             "weather/forecast", "optimization/system", "optimization/comfort",
             "optimization/energy", "optimization/schedule", "astra/create_table",
             "control/temperature", "control/power", "control/temperature/increment",
             "control/temperature/decrement", "analysis/temperature/daily",
             "analysis/cost", "analysis/optimize/llm", "analysis/anomaly/detect",
             "groq/context", "groq/optimize"},
     on_error : {"handle_api_error"}]

\* except Exception as e: ...
ExceptException(endpoint, e) ==
    IF endpoint.on_error = "HTTPException500"
    THEN HTTPException(500, e.detail)
    ELSE HandleApiError(e, endpoint.path)

\* The exception handlers of the application answer with the status code of
\* the exception.
ExceptionResponse(exc) == [status_code |-> exc.status_code, detail |-> exc.detail]

\* An endpoint body: validate the token, perform the operation (which works
\* or raises), answer.
EndpointBody(endpoint, token, operation_ok) ==
    LET validated == ValidateToken(token)
    IN  IF validated.raised
        THEN [response |-> ExceptionResponse(ExceptException(endpoint, validated.exc)),
              performed |-> FALSE]
        ELSE IF operation_ok
        THEN [response |-> [status_code |-> 200, detail |-> "ok"], performed |-> TRUE]
        ELSE [response |-> ExceptionResponse(
                               ExceptException(endpoint,
                                               HTTPException(500, "operation failed"))),
              performed |-> TRUE]

HandleRequest ==
    \E endpoint \in Endpoints, token \in Tokens, operation_ok \in BOOLEAN :
        /\ api = NoRequest
        /\ LET bearer == OAuth2Scheme(token)
               handled == IF bearer.raised
                          THEN [response |-> ExceptionResponse(bearer.exc),
                                performed |-> FALSE]
                          ELSE EndpointBody(endpoint, bearer.token, operation_ok)
           IN  api' = [op |-> "request", endpoint |-> endpoint, token |-> token,
                       response |-> handled.response, performed |-> handled.performed]
        /\ UNCHANGED <<engines, rt, services, realtime>>

ResponseSent ==
    /\ api # NoRequest
    /\ api' = NoRequest
    /\ UNCHANGED <<engines, rt, services, realtime>>

InitApi ==
    /\ eOp = [op |-> "none"]
    /\ eRet = NoCall
    /\ lstm_model = "none"
    /\ model_file = FALSE
    /\ cOp = [op |-> "none"]
    /\ cRet = NoCall
    /\ calls = <<>>
    /\ api = NoRequest
    /\ rt = NoProcessing
    /\ ServicesUnused
    /\ RealTimeUnused

NextApi == HandleRequest \/ ResponseSent

SpecApi == InitApi /\ [][NextApi]_vars

\* C17: every request to a token-protected endpoint that carries no token,
\* or a token that fails validation, is answered with status 401, and the
\* endpoint's operation is not performed for it.
C17_UnauthorizedIs401 ==
    (api # NoRequest /\ api.token # Some("valid")) =>
        /\ api.response.status_code = 401
        /\ ~api.performed

(***************************************************************************)
(* RealTimeProcessor (src/real_time/real_time_processing.py)               *)
(*                                                                         *)
(* rt holds the processor's counters and alert times, the connection       *)
(* manager's clients per system, the clock, the last call and the messages *)
(* that call delivered to each system's clients.  The clock counts units   *)
(* of 150 s, so the cooldown period of 300 s is 2.                         *)
(***************************************************************************)
min_consecutive_anomalies == 3
cooldown_period == 2

\* ConnectionManager.broadcast_to_system to the one client a system has in
\* the model: nothing without a client; a failed send drops the client.
BroadcastToSystem(state, system_id, message, send_ok) ==
    IF state.active_connections[system_id] = 0 THEN state
    ELSE IF send_ok
    THEN [state EXCEPT !.broadcast_messages[system_id] = Append(@, message)]
    ELSE [state EXCEPT !.active_connections[system_id] = 0]

\* _detect_anomalies: the autoencoder's verdict updates the counter of
\* consecutive anomalies; when the autoencoder raises, nothing is detected
\* and the counter stays.
DetectAnomalies(state, system_id, verdict) ==
    [state EXCEPT !.anomaly_counters[system_id] =
        IF verdict = "anomaly" THEN @ + 1 ELSE IF verdict = "normal" THEN 0 ELSE @]

\* _trigger_alert: the alert is broadcast, then stored.
TriggerAlert(state, system_id, send_ok) ==
    BroadcastToSystem(state, system_id,
                      [type |-> "anomaly_alert", system_id |-> system_id], send_ok)

\* `await self.db.save_anomaly_event(...)` raises AttributeError on a
\* database service without that method.
SaveAnomalyEventRaises(state) == state.db = "AstraDBService"

\* `(datetime.now() - last_alert).total_seconds() >= cooldown_period`
CooldownOver(state, system_id) ==
    LET last_alert == state.last_alert_time[system_id]
    IN  last_alert = <<>> \/ state.now - last_alert[1] >= cooldown_period

\* `consecutive_count >= min_consecutive_anomalies`
ShouldAlert(consecutive_count) == consecutive_count >= min_consecutive_anomalies

\* _handle_anomalies: alert from the third consecutive anomaly on, unless an
\* alert went out less than the cooldown period ago; the alert time is set
\* once _trigger_alert has returned, and not at all when it raised.
HandleAnomalies(state, system_id, send_ok) ==
    IF ShouldAlert(state.anomaly_counters[system_id]) /\ CooldownOver(state, system_id)
    THEN IF SaveAnomalyEventRaises(state)
         THEN [state |-> TriggerAlert(state, system_id, send_ok), raised |-> TRUE]
         ELSE [state |-> [TriggerAlert(state, system_id, send_ok)
                             EXCEPT !.last_alert_time[system_id] = <<state.now>>],
               raised |-> FALSE]
    ELSE [state |-> state, raised |-> FALSE]

\* process_sensor_data for a reading that has every required field: the
\* processor afterwards, and whether the call raised.
ProcessSensorData(state, system_id, verdict, alert_sent, update_sent) ==
    LET started == [state EXCEPT !.broadcast_messages[system_id] = <<>>]
        checked == DetectAnomalies(started, system_id, verdict)
        handled == IF verdict = "anomaly"
                   THEN HandleAnomalies(checked, system_id, alert_sent)
                   ELSE [state |-> checked, raised |-> FALSE]
        response == [type |-> "processed", system_id |-> system_id]
    IN  IF handled.raised THEN handled
        ELSE [state |-> BroadcastToSystem(handled.state, system_id, response, update_sent),
              raised |-> FALSE]

ProcessSensorDataCall ==
    \E system_id \in Systems, complete \in BOOLEAN,
       verdict \in {"anomaly", "normal", "failed"},
       alert_sent \in BOOLEAN, update_sent \in BOOLEAN :
        /\ rt.op = "none"
        /\ verdict = "anomaly" => rt.anomaly_counters[system_id] < MaxConsecutive
        /\ rt' = IF ~complete
                 THEN [rt EXCEPT !.op = "process_sensor_data",
                                 !.broadcast_messages[system_id] = <<>>]
                          @@ [system_id |-> system_id, detected |-> FALSE,
                              status |-> "error"]
                 ELSE LET processed == ProcessSensorData(rt, system_id, verdict,
                                                         alert_sent, update_sent)
                      IN  [processed.state EXCEPT !.op = "process_sensor_data"]
                              @@ [system_id |-> system_id,
                                  detected |-> verdict = "anomaly",
                                  status |-> IF processed.raised THEN "error" ELSE "ok"]
        /\ UNCHANGED <<engines, api, services, realtime>>

\* The caller takes the response.
ProcessingReturned ==
    /\ rt.op # "none"
    /\ rt' = [f \in DOMAIN NoProcessing |-> IF f = "op" THEN "none" ELSE rt[f]]
    /\ UNCHANGED <<engines, api, services, realtime>>

\* ConnectionManager.connect and disconnect
Connect ==
    \E system_id \in Systems :
        /\ rt.op = "none"
        /\ rt.active_connections[system_id] = 0
        /\ rt' = [rt EXCEPT !.active_connections[system_id] = 1]
        /\ UNCHANGED <<engines, api, services, realtime>>

Disconnect ==
    \E system_id \in Systems :
        /\ rt.op = "none"
        /\ rt.active_connections[system_id] = 1
        /\ rt' = [rt EXCEPT !.active_connections[system_id] = 0]
        /\ UNCHANGED <<engines, api, services, realtime>>

\* datetime.now() moves on.
Tick ==
    /\ rt.op = "none"
    /\ rt.now < MaxTime
    /\ rt' = [rt EXCEPT !.now = @ + 1]
    /\ UNCHANGED <<engines, api, services, realtime>>

InitRealTime ==
    /\ eOp = [op |-> "none"]
    /\ eRet = NoCall
    /\ lstm_model = "none"
    /\ model_file = FALSE
    /\ cOp = [op |-> "none"]
    /\ cRet = NoCall
    /\ calls = <<>>
    /\ api = NoRequest
    /\ rt \in {[NoProcessing EXCEPT !.db = db] : db \in DbServices}
    /\ ServicesUnused
    /\ RealTimeUnused

NextRealTime ==
    \/ ProcessSensorDataCall
    \/ ProcessingReturned
    \/ Connect
    \/ Disconnect
    \/ Tick

SpecRealTime == InitRealTime /\ [][NextRealTime]_vars

\* C18: whenever process_sensor_data detects an anomaly in the reading, then
\* by the time the call returns an anomaly_alert carrying that system_id has
\* been broadcast to the system's clients, and it is the most recent message
\* broadcast for that system.  Stated for a system whose client is connected
\* and received every message of the call.
C18_AnomalyAlertIsLastBroadcast ==
    (/\ rt.op = "process_sensor_data" /\ rt.status = "ok" /\ rt.detected
     /\ rt.active_connections[rt.system_id] = 1) =>
        LET sent == rt.broadcast_messages[rt.system_id]
        IN  /\ sent # <<>>
            /\ sent[Len(sent)] = [type |-> "anomaly_alert", system_id |-> rt.system_id]

\* The energy-constraint check: a candidate passes when no constraint is
\* given or its declared energy impact does not exceed the constraint.
PassesEnergyCheck(rec, energy_constraint) ==
    energy_constraint = None \/ DeclaredEnergyImpact(rec) <= energy_constraint[1]

\* C19: the list the recommendation filter of optimize_comfort returns is
\* exactly the sub-sequence, in original order, of the candidates that pass
\* both the energy-constraint check and the preference-compliance check, each
\* marked validated = true; no other candidate is marked validated.
C19_FilterIsPassingSubsequence ==
    ComfortOptimized =>
        LET Passes(rec) == /\ PassesEnergyCheck(rec, cOp.energy_constraint)
                           /\ CheckPreferenceCompliance(rec, cOp.user_prefs)
            passing == SelectSeq(cOp.recommendations, Passes)
            returned == cRet.value[1].recommendations
        IN  /\ Len(returned) = Len(passing)
            /\ \A i \in 1..Len(returned) :
                   /\ returned[i].validated = TRUE
                   /\ returned[i] = MarkValidated(passing[i])

\* The peak_shift entries of the recommendations optimize_energy_cost returned.
PeakShifts ==
    LET recs == eRet.value[1].recommendations
    IN  {i \in 1..Len(recs) : recs[i].type = "peak_shift"}

\* C20: every peak_shift recommendation of optimize_energy_cost names a
\* from_hour at which the predicted load is strictly above the 75th percentile
\* of the predicted series and the optimal load is strictly below the
\* predicted load; its load_reduction is predicted minus optimal and is
\* positive; no two peak_shift recommendations name the same hour; and an
\* hour failing either condition has none.
C20_PeakShiftOnlyWhereReduced ==
    Optimized =>
        LET predicted == eOp.load_prediction
            optimal == eRet.value[1].optimal_schedule.schedule
            recs == eRet.value[1].recommendations
            Qualifies(h) == /\ 4 * predicted[h + 1] > Percentile75(predicted)
                            /\ optimal[h + 1] < predicted[h + 1]
        IN  /\ \A i \in PeakShifts :
                 /\ recs[i].from_hour \in 0..(Len(predicted) - 1)
                 /\ Qualifies(recs[i].from_hour)
                 /\ recs[i].load_reduction
                        = predicted[recs[i].from_hour + 1] - optimal[recs[i].from_hour + 1]
                 /\ recs[i].load_reduction > 0
            /\ \A i, j \in PeakShifts : recs[i].from_hour = recs[j].from_hour => i = j
            /\ \A h \in 0..(Len(predicted) - 1) :
                 ~Qualifies(h) => \A i \in PeakShifts : recs[i].from_hour # h

\* A returned schedule with a peak_shift recommendation for one hour and,
\* beside it, an hour the optimal schedule reduces that is not above the 75th
\* percentile and so has none.
C20_Witness ==
    /\ Optimized
    /\ PeakShifts # {}
    /\ \E h \in 0..(Len(eOp.load_prediction) - 1) :
         /\ eRet.value[1].optimal_schedule.schedule[h + 1] < eOp.load_prediction[h + 1]
         /\ \A i \in PeakShifts : eRet.value[1].recommendations[i].from_hour # h

\* The efficiency_improvement entries for subsystem `system` among the
\* recommendations optimize_energy_cost returned.
EfficiencyGaps(system) ==
    LET recs == eRet.value[1].recommendations
    IN  {i \in 1..Len(recs) :
            recs[i].type = "efficiency_improvement" /\ recs[i].system = system}

\* C21: a subsystem whose current efficiency (0 when the estimate does not
\* report it) is below its target gets one efficiency recommendation whose
\* payback is improvement_cost / potential_saving, with priority "high" iff
\* payback < 2, "medium" iff 2 <= payback < 4 and "low" iff payback >= 4;
\* when the saving is not positive the payback is infinite and the priority
\* "low"; a subsystem at or above its target gets none.
C21_EfficiencyGapPaybackPriority ==
    Optimized =>
        \A k \in 1..Len(systems) :
            LET system == systems[k].system
                cost == systems[k].improvement_cost
                baseline == eOp.efficiency.baseline
                current_eff == IF system \in DOMAIN baseline THEN baseline[system] ELSE 0
                saving == eOp.efficiency.saving[system]
                recs == eRet.value[1].recommendations
            IN  IF current_eff < systems[k].expected
                THEN /\ Cardinality(EfficiencyGaps(system)) = 1
                     /\ \A i \in EfficiencyGaps(system) :
                          LET payback == recs[i].payback_period
                          IN  /\ recs[i].potential_saving = saving
                              /\ saving > 0 =>
                                   /\ payback[2] > 0
                                   /\ payback[1] * saving = cost * payback[2]
                                   /\ recs[i].priority = "high" <=> cost < 2 * saving
                                   /\ recs[i].priority = "medium" <=>
                                        (2 * saving <= cost /\ cost < 4 * saving)
                                   /\ recs[i].priority = "low" <=> cost >= 4 * saving
                              /\ saving <= 0 =>
                                   /\ payback = <<1, 0>>
                                   /\ recs[i].priority = "low"
                ELSE EfficiencyGaps(system) = {}

\* A returned result with a recommendation whose payback is exactly 2 (and so
\* "medium") beside one whose payback is exactly 4 ("low") and a subsystem
\* above target with none.
C21_Witness ==
    /\ Optimized
    /\ \E i \in EfficiencyGaps("compressor") :
         /\ eRet.value[1].recommendations[i].payback_period = <<5000, 2500>>
         /\ eRet.value[1].recommendations[i].priority = "medium"
    /\ \E i \in EfficiencyGaps("fans") :
         eRet.value[1].recommendations[i].priority = "low"
    /\ EfficiencyGaps("heat_exchanger") = {}

\* Degree-hours of a series against a heating base of 18 and a cooling base of
\* 24, summed over its points.
RECURSIVE DegreeHours18(_, _)
DegreeHours18(df, i) ==
    IF i > Len(df) THEN [heating |-> 0, cooling |-> 0]
    ELSE LET rest == DegreeHours18(df, i + 1)
             t == df[i].outside_temp
         IN  [heating |-> rest.heating + (IF t < 18 THEN 18 - t ELSE 0),
              cooling |-> rest.cooling + (IF t > 24 THEN t - 24 ELSE 0)]

\* C22: for every analysed series the expected consumption behind the
\* efficiency ratio is 0.5 * sum of max(18 - outside_temp, 0) + 0.7 * sum of
\* max(outside_temp - 24, 0) + 100 (in tenths of a kWh here), so that a point
\* between 18 and 24 degrees adds nothing, and the efficiency ratio is the
\* total consumption over it.
C22_ExpectedConsumptionBase18 ==
    Analysed =>
        LET dh == DegreeHours18(eOp.series, 1)
            expected == 5 * dh.heating + 7 * dh.cooling + 1000
        IN  /\ CalculateExpectedConsumption(eOp.series) = expected
            /\ eRet.value[1].efficiency_ratio
                   = <<10 * SeqSum(Column(eOp.series, "energy_consumption")), expected>>

\* C23: calculate_comfort_metrics returns a ComfortMetrics value also when
\* the clothing surface temperature equals the mean radiant temperature (air
\* temperature 35.5 with mean_radiant_temp omitted): the radiative
\* coefficient is taken as 0 and nothing is raised.
C23_DegenerateRadiantCaseReturns ==
    cOp.op = "calculate_comfort_metrics" =>
        LET tr == IF cOp.mean_radiant_temp # None
                  THEN cOp.mean_radiant_temp[1] ELSE cOp.temperature
        IN  ClothingSurfaceTemp(cOp.temperature, clothing_insulation) = tr
                => cRet.status = "ok"

(***************************************************************************)
(* RealTimeProcessor: concurrent process_sensor_data calls                 *)
(*                                                                         *)
(* Each handler task runs one process_sensor_data call after another on    *)
(* the one processor.  A call advances from one await at which it may be   *)
(* suspended to the next: the database write of _store_sensor_data, then   *)
(* the broadcast and the database write of _trigger_alert.  tasks holds    *)
(* the frame of each handler's call and the alerts triggered so far.       *)
(***************************************************************************)
MaxHandlers == 2
MaxAlerts == 2

Handlers == 1..MaxHandlers

IdleHandler ==
    [pc |-> "idle", system_id |-> "s1", detected |-> FALSE,
     consecutive_count |-> 0, status |-> "none"]

\* process_sensor_data up to `await self._store_sensor_data(...)`: the
\* reading is checked, the counter updated, and the call keeps the verdict
\* and the count it saw.
ReceiveReading(c) ==
    \E system_id \in Systems, verdict \in {"anomaly", "normal", "failed"} :
        /\ tasks.calls[c].pc = "idle"
        /\ Len(tasks.alerts) < MaxAlerts
        /\ verdict = "anomaly" => rt.anomaly_counters[system_id] < MaxConsecutive
        /\ rt' = DetectAnomalies(rt, system_id, verdict)
        /\ tasks' = [tasks EXCEPT !.calls[c] =
                        [pc |-> "store_sensor_data",
                         system_id |-> system_id,
                         detected |-> verdict = "anomaly",
                         consecutive_count |->
                             IF verdict = "failed" THEN 0
                             ELSE rt'.anomaly_counters[system_id],
                         status |-> "none"]]
        /\ UNCHANGED <<engines, api, services, manager, processing>>

\* The alert _trigger_alert builds and broadcasts.
AnomalyAlert(system_id, time, consecutive_count) ==
    [type |-> "anomaly_alert", system_id |-> system_id, timestamp |-> time,
     consecutive_anomalies |-> consecutive_count]

\* From the return of _store_sensor_data on: without an anomaly to alert on,
\* the response is broadcast and the call returns; otherwise _handle_anomalies
\* checks the count the call saw and the cooldown, and _trigger_alert sends
\* the alert and awaits the database write (which raises at once on a
\* service without save_anomaly_event).
HandleDetected(c) ==
    LET call == tasks.calls[c]
    IN  /\ call.pc = "store_sensor_data"
        /\ IF call.detected /\ ShouldAlert(call.consecutive_count)
                 /\ CooldownOver(rt, call.system_id)
           THEN tasks' = [tasks EXCEPT
                    !.alerts = Append(@, AnomalyAlert(call.system_id, rt.now,
                                                      call.consecutive_count)),
                    !.calls[c].pc =
                        IF SaveAnomalyEventRaises(rt) THEN "idle" ELSE "save_anomaly_event",
                    !.calls[c].status =
                        IF SaveAnomalyEventRaises(rt) THEN "error" ELSE "none"]
           ELSE tasks' = [tasks EXCEPT !.calls[c].pc = "idle",
                                       !.calls[c].status = "ok"]
        /\ UNCHANGED <<engines, api, rt, services, manager, processing>>

\* _trigger_alert has returned: self.last_alert_time[system_id] =
\* datetime.now(); then the response is broadcast and the call returns.
AlertStored(c) ==
    LET call == tasks.calls[c]
    IN  /\ call.pc = "save_anomaly_event"
        /\ rt' = [rt EXCEPT !.last_alert_time[call.system_id] = <<rt.now>>]
        /\ tasks' = [tasks EXCEPT !.calls[c].pc = "idle", !.calls[c].status = "ok"]
        /\ UNCHANGED <<engines, api, services, manager, processing>>

\* datetime.now() moves on while calls are in flight.
TimePasses ==
    /\ rt.now < MaxTime
    /\ rt' = [rt EXCEPT !.now = @ + 1]
    /\ UNCHANGED <<engines, api, services, realtime>>

InitRealTimeConcurrent ==
    /\ eOp = [op |-> "none"]
    /\ eRet = NoCall
    /\ lstm_model = "none"
    /\ model_file = FALSE
    /\ cOp = [op |-> "none"]
    /\ cRet = NoCall
    /\ calls = <<>>
    /\ api = NoRequest
    /\ rt \in {[NoProcessing EXCEPT !.db = db] : db \in DbServices}
    /\ ServicesUnused
    /\ tasks = [calls |-> [c \in Handlers |-> IdleHandler], alerts |-> <<>>]
    /\ manager = <<>>
    /\ processing = <<>>

NextRealTimeConcurrent ==
    \/ \E c \in Handlers :
        \/ ReceiveReading(c)
        \/ HandleDetected(c)
        \/ AlertStored(c)
    \/ TimePasses

SpecRealTimeConcurrent == InitRealTimeConcurrent /\ [][NextRealTimeConcurrent]_vars

\* C24: in every interleaving of process_sensor_data calls, an anomaly alert
\* is triggered only on a consecutive-anomaly count of at least
\* min_consecutive_anomalies, and any two alerts triggered for the same
\* system are at least cooldown_period apart.
C24_AlertsCountedAndSpaced ==
    /\ \A i \in 1..Len(tasks.alerts) :
           tasks.alerts[i].consecutive_anomalies >= min_consecutive_anomalies
    /\ \A i, j \in 1..Len(tasks.alerts) :
           (i < j /\ tasks.alerts[i].system_id = tasks.alerts[j].system_id) =>
               tasks.alerts[j].timestamp - tasks.alerts[i].timestamp >= cooldown_period

(***************************************************************************)
(* CircuitBreaker (src/api/utils/connection_manager.py)                    *)
(*                                                                         *)
(* breaker holds the fields of one CircuitBreaker, the event loop's clock, *)
(* and the last method called on it with what it returned.  The services   *)
(* call can_execute, record_success and record_failure in any order, since *)
(* queries overlap.                                                        *)
(***************************************************************************)
MaxThreshold == 2
MaxFailures == 4
MaxClock == 4

notBreaker == <<engines, api, rt, pool, controller, realtime>>

\* CircuitBreaker.__init__
FailureThresholds == 1..MaxThreshold
ResetTimeouts == {0, 1, 2}
NewCircuitBreaker(failure_threshold, reset_timeout) ==
    [failure_count |-> 0,
     failure_threshold |-> failure_threshold,
     reset_timeout |-> reset_timeout,
     last_failure_time |-> 0,
     state |-> "closed",
     time |-> 0,
     op |-> "none",
     returned |-> TRUE]

\* `(asyncio.get_event_loop().time() - self.last_failure_time) > self.reset_timeout`
ResetTimeoutOverMut(cb) == cb.time - cb.last_failure_time >= cb.reset_timeout
ResetTimeoutOver(cb) == cb.time - cb.last_failure_time > cb.reset_timeout

\* can_execute
CanExecute ==
    /\ breaker' =
         IF breaker.state = "open"
         THEN IF ResetTimeoutOver(breaker)
              THEN [breaker EXCEPT !.state = "half-open",
                                   !.op = "can_execute", !.returned = TRUE]
              ELSE [breaker EXCEPT !.op = "can_execute", !.returned = FALSE]
         ELSE [breaker EXCEPT !.op = "can_execute", !.returned = TRUE]
    /\ UNCHANGED notBreaker

\* record_success
RecordSuccess ==
    /\ breaker' = [breaker EXCEPT !.failure_count = 0, !.state = "closed",
                                  !.op = "record_success", !.returned = TRUE]
    /\ UNCHANGED notBreaker

\* record_failure
RecordFailure ==
    /\ breaker.failure_count < MaxFailures
    /\ LET failure_count == breaker.failure_count + 1
       IN  breaker' = [breaker EXCEPT
               !.failure_count = failure_count,
               !.last_failure_time = breaker.time,
               !.state = IF failure_count >= breaker.failure_threshold
                         THEN "open" ELSE @,
               !.op = "record_failure", !.returned = TRUE]
    /\ UNCHANGED notBreaker

\* asyncio.get_event_loop().time() is monotonic.
ClockAdvances ==
    /\ breaker.time < MaxClock
    /\ breaker' = [breaker EXCEPT !.time = @ + 1, !.op = "none"]
    /\ UNCHANGED notBreaker

InitBreaker ==
    /\ eOp = [op |-> "none"]
    /\ eRet = NoCall
    /\ lstm_model = "none"
    /\ model_file = FALSE
    /\ cOp = [op |-> "none"]
    /\ cRet = NoCall
    /\ calls = <<>>
    /\ api = NoRequest
    /\ rt = NoProcessing
    /\ breaker \in {NewCircuitBreaker(failure_threshold, reset_timeout) :
                       failure_threshold \in FailureThresholds,
                       reset_timeout \in ResetTimeouts}
    /\ pool = <<>>
    /\ controller = <<>>
    /\ RealTimeUnused

NextBreaker == CanExecute \/ RecordSuccess \/ RecordFailure \/ ClockAdvances

SpecBreaker == InitBreaker /\ [][NextBreaker]_vars

\* C25: the breaker is closed iff failure_count < failure_threshold; with
\* failure_threshold failures recorded since the last success, can_execute
\* returns false while no more than reset_timeout has passed since the last
\* failure and afterwards returns true leaving the breaker half-open; a
\* failure recorded while half-open re-opens the breaker, and a recorded
\* success closes it with failure_count = 0.
C25_CircuitBreakerStates ==
    /\ [](/\ breaker.state = "closed" <=> breaker.failure_count < breaker.failure_threshold
          /\ (breaker.op = "can_execute"
                  /\ breaker.failure_count >= breaker.failure_threshold) =>
                IF breaker.time - breaker.last_failure_time > breaker.reset_timeout
                THEN breaker.returned /\ breaker.state = "half-open"
                ELSE ~breaker.returned /\ breaker.state = "open"
          /\ breaker.op = "record_success" =>
                breaker.state = "closed" /\ breaker.failure_count = 0)
    /\ [][(breaker.state = "half-open" /\ breaker'.op = "record_failure")
              => breaker'.state = "open"]_vars

\* The breaker opened, the timeout passed, and can_execute answered true
\* leaving it half-open.
C25_Witness ==
    /\ breaker.op = "can_execute"
    /\ breaker.returned
    /\ breaker.state = "half-open"
    /\ breaker.failure_count >= breaker.failure_threshold

(***************************************************************************)
(* ConnectionPool (src/api/utils/connection_manager.py)                    *)
(*                                                                         *)
(* pool holds the pool's counter and idle queue, the number of connections *)
(* created so far, and for each client task where its get_connection or    *)
(* release_connection stands and the connection it holds.  A connection is *)
(* the value _create_connection returns, which is True for both services   *)
(* (AstraDBService.connect and WeatherService.connect return True).  A     *)
(* client releases what it obtained once, as execute_query does.           *)
(***************************************************************************)
_max_connections == 10
MaxClients == 3

Clients == 1..MaxClients
notPool == <<engines, api, rt, breaker, controller, realtime>>

\* A client task that holds no connection and awaits nothing.
IdleClient == [pc |-> "idle", conn |-> None, at_cap |-> FALSE, via |-> "none"]

\* ConnectionPool.__init__
NewConnectionPool ==
    [active_connections |-> 0,
     connections |-> <<>>,
     created |-> 0,
     clients |-> [c \in Clients |-> IdleClient]]

\* `self.active_connections < self._max_connections`
UnderCapMut(p) == p.active_connections <= _max_connections
UnderCap(p) == p.active_connections < _max_connections

\* get_connection up to its await: under the cap the counter is incremented
\* and a connection is being created, otherwise the task waits on the queue.
GetConnection(c) ==
    /\ pool.clients[c].pc = "idle"
    /\ pool' = IF UnderCap(pool)
               THEN [pool EXCEPT !.active_connections = @ + 1,
                                 !.clients[c].pc = "create_connection"]
               ELSE [pool EXCEPT !.clients[c].pc = "connections_get",
                                 !.clients[c].at_cap = TRUE]
    /\ UNCHANGED notPool

\* _create_connection returned.
CreateConnection(c) ==
    /\ pool.clients[c].pc = "create_connection"
    /\ pool' = [pool EXCEPT !.created = @ + 1,
                            !.clients[c].pc = "holding",
                            !.clients[c].conn = Some(TRUE),
                            !.clients[c].via = "create_connection"]
    /\ UNCHANGED notPool

\* `await self.connections.get()` returns the head of the queue once there
\* is one.
ConnectionsGet(c) ==
    /\ pool.clients[c].pc = "connections_get"
    /\ pool.connections # <<>>
    /\ pool' = [pool EXCEPT !.connections = Tail(@),
                            !.clients[c].pc = "holding",
                            !.clients[c].conn = Some(Head(pool.connections)),
                            !.clients[c].via = "connections"]
    /\ UNCHANGED notPool

\* release_connection: `await self.connections.put(conn)`, which waits while
\* the queue is full.
ReleaseConnection(c) ==
    /\ pool.clients[c].pc = "holding"
    /\ Len(pool.connections) < _max_connections
    /\ pool' = [pool EXCEPT !.connections = Append(@, pool.clients[c].conn[1]),
                            !.clients[c] = IdleClient]
    /\ UNCHANGED notPool

InitPool ==
    /\ eOp = [op |-> "none"]
    /\ eRet = NoCall
    /\ lstm_model = "none"
    /\ model_file = FALSE
    /\ cOp = [op |-> "none"]
    /\ cRet = NoCall
    /\ calls = <<>>
    /\ api = NoRequest
    /\ rt = NoProcessing
    /\ breaker = <<>>
    /\ pool = NewConnectionPool
    /\ controller = <<>>
    /\ RealTimeUnused

NextPool ==
    \E c \in Clients :
        \/ GetConnection(c)
        \/ CreateConnection(c)
        \/ ConnectionsGet(c)
        \/ ReleaseConnection(c)

SpecPool == InitPool /\ [][NextPool]_vars

\* The clients holding a connection they have not released yet.
CheckedOut == {c \in Clients : pool.clients[c].pc = "holding"}

\* C26: in every interleaving of get_connection and release_connection in
\* which a connection is released once by the client that obtained it, no
\* more than _max_connections connections are ever created, the idle queue
\* and the checked-out connections together never outnumber the connections
\* created, and a get_connection issued at the cap returns a connection
\* taken from the queue of released connections, never a new one.
C26_PoolWithinCap ==
    /\ pool.created <= _max_connections
    /\ Len(pool.connections) + Cardinality(CheckedOut) <= pool.created
    /\ \A c \in CheckedOut :
           pool.clients[c].at_cap => pool.clients[c].via = "connections"

\* Every connection the cap allows has been created, and a client that asked
\* at the cap holds one that came back through the queue.
C26_Witness ==
    /\ pool.created = _max_connections
    /\ \E c \in CheckedOut : pool.clients[c].at_cap /\ pool.clients[c].via = "connections"

(***************************************************************************)
(* ConnectionManager of the real-time processor, client by client          *)
(*                                                                         *)
(* manager holds active_connections (a dict: only the systems that have a  *)
(* set are in its domain) and client_info, the state of every websocket,   *)
(* and the frame of the broadcast_to_system call in flight.  connect and   *)
(* disconnect run without suspension once the websocket is accepted; a     *)
(* broadcast is suspended at each send_json, and other tasks run then.     *)
(***************************************************************************)
MaxSockets == 3

WebSockets == 1..MaxSockets
notManager == <<engines, api, rt, services, tasks, processing>>

Restrict(f, keys) == [k \in keys |-> f[k]]

NoBroadcast ==
    [pc |-> "none", system_id |-> "s1", members |-> {}, attached |-> FALSE,
     size |-> 0, start |-> {}, throughout |-> {}, visited |-> {},
     current |-> 0, dead_connections |-> {},
     sends |-> [w \in WebSockets |-> 0], error |-> ""]

\* ConnectionManager.__init__; no websocket has been opened yet.
NewConnectionManager ==
    [active_connections |-> <<>>,
     client_info |-> <<>>,
     sockets |-> [w \in WebSockets |-> "new"],
     broadcast |-> NoBroadcast]

\* The set object a broadcast iterates over is the one connect and disconnect
\* change, until disconnect deletes the emptied set from the dict.
Iterated(m, system_id) ==
    m.broadcast.pc = "send_json" /\ m.broadcast.system_id = system_id
        /\ m.broadcast.attached

\* connect, after `await websocket.accept()`
ConnectionManagerConnect(m, websocket, system_id) ==
    [m EXCEPT
        !.active_connections =
            IF system_id \in DOMAIN @
            THEN [@ EXCEPT ![system_id] = @ \cup {websocket}]
            ELSE [s \in DOMAIN @ \cup {system_id} |->
                     IF s = system_id THEN {websocket} ELSE @[s]],
        !.client_info =
            [w \in DOMAIN @ \cup {websocket} |->
                IF w = websocket THEN [system_id |-> system_id] ELSE @[w]],
        !.broadcast.members =
            IF Iterated(m, system_id) /\ system_id \in DOMAIN m.active_connections
            THEN @ \cup {websocket} ELSE @]

\* `if not self.active_connections[system_id]: del self.active_connections[system_id]`
DropEmptyMut(active_connections, system_id) == active_connections
DropEmpty(active_connections, system_id) ==
    IF active_connections[system_id] = {}
    THEN Restrict(active_connections, DOMAIN active_connections \ {system_id})
    ELSE active_connections

\* disconnect of a websocket that client_info knows
ConnectionManagerDisconnect(m, websocket) ==
    LET system_id == m.client_info[websocket].system_id
        removed == [m.active_connections EXCEPT ![system_id] = @ \ {websocket}]
    IN  [m EXCEPT
            !.active_connections = DropEmpty(removed, system_id),
            !.client_info = Restrict(@, DOMAIN @ \ {websocket}),
            !.broadcast.members =
                IF Iterated(m, system_id) THEN @ \ {websocket} ELSE @,
            !.broadcast.attached =
                IF Iterated(m, system_id) THEN removed[system_id] # {} ELSE @,
            !.broadcast.throughout = @ \ {websocket}]

\* `for dead in dead_connections: self.disconnect(dead)` on websockets that
\* client_info knows.
RECURSIVE DisconnectAll(_, _)
DisconnectAll(m, dead) ==
    IF dead = {} THEN m
    ELSE LET websocket == CHOOSE w \in dead : TRUE
         IN  DisconnectAll(ConnectionManagerDisconnect(m, websocket), dead \ {websocket})

\* The end of broadcast_to_system: the dead connections are disconnected;
\* disconnect raises KeyError on one that is no longer in client_info, after
\* any of the others have been disconnected.
CleanUpDead(m) ==
    LET dead == m.broadcast.dead_connections
        known == dead \cap DOMAIN m.client_info
        during == m.broadcast.throughout
    IN  IF known = dead
        THEN {[DisconnectAll(m, dead) EXCEPT !.broadcast.pc = "returned",
                                            !.broadcast.throughout = during]}
        ELSE {[DisconnectAll(m, some) EXCEPT !.broadcast.pc = "raised",
                                            !.broadcast.error = "KeyError",
                                            !.broadcast.throughout = during] :
                 some \in SUBSET known}

\* `await connection.send_json(message)` is called on the next connection.
SendJson(m, connection) ==
    [m EXCEPT !.broadcast.pc = "send_json",
              !.broadcast.current = connection,
              !.broadcast.visited = @ \cup {connection},
              !.broadcast.sends[connection] = @ + 1]

\* One step of `for connection in self.active_connections[system_id]`: the
\* set iterator raises RuntimeError when the set's size is not what it was
\* when the iteration began; otherwise it yields a member not yet visited (a
\* member added since may or may not be reached), or the loop ends.
NextConnection(m) ==
    LET b == m.broadcast
        candidates == b.members \ b.visited
    IN  IF Cardinality(b.members) # b.size
        THEN {[m EXCEPT !.broadcast.pc = "raised", !.broadcast.error = "RuntimeError"]}
        ELSE {SendJson(m, connection) : connection \in candidates}
                 \cup (IF candidates \cap b.start = {} THEN CleanUpDead(m) ELSE {})

\* broadcast_to_system up to its first send
BroadcastToSystemStart(m, system_id) ==
    IF system_id \notin DOMAIN m.active_connections
    THEN {[m EXCEPT !.broadcast = [NoBroadcast EXCEPT !.pc = "returned",
                                                     !.system_id = system_id]]}
    ELSE NextConnection(
             [m EXCEPT !.broadcast =
                 [NoBroadcast EXCEPT !.pc = "send_json",
                                     !.system_id = system_id,
                                     !.members = m.active_connections[system_id],
                                     !.attached = TRUE,
                                     !.size = Cardinality(m.active_connections[system_id]),
                                     !.start = m.active_connections[system_id],
                                     !.throughout = m.active_connections[system_id]]])

\* handle_websocket: a new websocket is accepted and registered.
WebSocketConnects ==
    \E websocket \in WebSockets, system_id \in Systems :
        /\ manager.sockets[websocket] = "new"
        /\ manager' = [ConnectionManagerConnect(manager, websocket, system_id)
                          EXCEPT !.sockets[websocket] = "open"]
        /\ UNCHANGED notManager

\* handle_websocket: receive_json raises WebSocketDisconnect and the handler
\* calls disconnect; when the broadcast's cleanup has removed the websocket
\* already, disconnect raises KeyError, which the handler logs.
WebSocketDisconnects ==
    \E websocket \in WebSockets :
        /\ manager.sockets[websocket] = "open"
        /\ manager' = [(IF websocket \in DOMAIN manager.client_info
                        THEN ConnectionManagerDisconnect(manager, websocket)
                        ELSE manager)
                          EXCEPT !.sockets[websocket] = "closed"]
        /\ UNCHANGED notManager

\* A caller starts broadcast_to_system.
BroadcastStarts ==
    \E system_id \in Systems :
        /\ manager.broadcast.pc = "none"
        /\ manager' \in BroadcastToSystemStart(manager, system_id)
        /\ UNCHANGED notManager

\* The send the broadcast was suspended at returns or raises (it raises on a
\* websocket that is closed), and the loop goes on.
SendReturns ==
    \E send_ok \in BOOLEAN :
        /\ manager.broadcast.pc = "send_json"
        /\ manager.sockets[manager.broadcast.current] = "closed" => ~send_ok
        /\ manager' \in NextConnection(
               IF send_ok THEN manager
               ELSE [manager EXCEPT !.broadcast.dead_connections =
                                        @ \cup {manager.broadcast.current}])
        /\ UNCHANGED notManager

\* The caller takes what the broadcast returned or raised.
BroadcastEnds ==
    /\ manager.broadcast.pc \in {"returned", "raised"}
    /\ manager' = [manager EXCEPT !.broadcast = NoBroadcast]
    /\ UNCHANGED notManager

InitManager ==
    /\ eOp = [op |-> "none"]
    /\ eRet = NoCall
    /\ lstm_model = "none"
    /\ model_file = FALSE
    /\ cOp = [op |-> "none"]
    /\ cRet = NoCall
    /\ calls = <<>>
    /\ api = NoRequest
    /\ rt = NoProcessing
    /\ ServicesUnused
    /\ tasks = <<>>
    /\ manager = NewConnectionManager
    /\ processing = <<>>

NextManager ==
    \/ WebSocketConnects
    \/ WebSocketDisconnects
    \/ BroadcastStarts
    \/ SendReturns
    \/ BroadcastEnds

SpecManager == InitManager /\ [][NextManager]_vars

\* C27: a websocket is in client_info iff it is a member of the set
\* active_connections keeps for the system recorded for it (and of no other
\* set), no system maps to an empty set, and when broadcast_to_system has
\* returned, no websocket whose send failed during it is still registered.
C27_RegistryConsistent ==
    /\ \A w \in WebSockets, s \in Systems :
           (s \in DOMAIN manager.active_connections
                /\ w \in manager.active_connections[s])
             <=> (w \in DOMAIN manager.client_info
                    /\ manager.client_info[w].system_id = s)
    /\ \A s \in DOMAIN manager.active_connections : manager.active_connections[s] # {}
    /\ manager.broadcast.pc = "returned" =>
           \A w \in manager.broadcast.dead_connections :
               /\ w \notin DOMAIN manager.client_info
               /\ \A s \in DOMAIN manager.active_connections :
                      w \notin manager.active_connections[s]

\* A broadcast returned after a send failed, its system keeps another
\* client, and nothing is left for the system of a client that went away.
C27_Witness ==
    /\ manager.broadcast.pc = "returned"
    /\ manager.broadcast.dead_connections # {}
    /\ manager.broadcast.system_id \in DOMAIN manager.active_connections
    /\ DOMAIN manager.active_connections # Systems
    /\ \E w \in WebSockets : manager.sockets[w] = "closed"

\* C28: a broadcast during which clients of its system connect or disconnect
\* still completes without raising, every client registered for the system
\* throughout the broadcast is sent the message exactly once, and a client
\* removed both by the broadcast's cleanup and by its own handler is removed
\* without error.
C28_BroadcastToleratesChanges ==
    /\ manager.broadcast.pc # "raised"
    /\ manager.broadcast.pc = "returned" =>
           \A w \in manager.broadcast.throughout : manager.broadcast.sends[w] = 1

(***************************************************************************)
(* RealTimeProcessor: the processing loops                                 *)
(*                                                                         *)
(* processing holds processing_tasks (only the started systems are in its  *)
(* domain; the value is the position of the system's loop task: scheduled *)
(* by create_task, asleep, ready to go round the loop again, or done), the *)
(* last_update of system_states, the clock in seconds, the number of loop  *)
(* tasks of each system that have neither ended nor been cancelled, and    *)
(* the last start_processing / stop_processing call.                       *)
(***************************************************************************)
MaxSeconds == 62

no_update_seconds == 60

notProcessing == <<engines, api, rt, services, tasks, manager>>

NewProcessing ==
    [processing_tasks |-> <<>>,
     system_states |-> <<>>,
     now |-> 0,
     loops |-> [s \in Systems |-> 0],
     op |-> [name |-> "none", system_id |-> "s1", started |-> FALSE, created |-> FALSE]]

\* `(datetime.now() - current_state["last_update"]).seconds > 60`
NoRecentUpdate(p, system_id) ==
    /\ system_id \in DOMAIN p.system_states
    /\ p.now - p.system_states[system_id].last_update > no_update_seconds

\* The alert dict _processing_loop passes has the keys alert_level and
\* message; _trigger_alert reads alert_level, error_score and
\* consecutive_count from it.
LoopAlertKeys == {"alert_level", "message"}
TriggerAlertKeys == {"alert_level", "error_score", "consecutive_count"}
TriggerAlertRaisesKeyError == ~(TriggerAlertKeys \subseteq LoopAlertKeys)

\* start_processing
StartProcessing ==
    \E system_id \in Systems :
        /\ processing' =
             IF system_id \in DOMAIN processing.processing_tasks
             THEN [processing EXCEPT
                      !.op = [name |-> "start_processing", system_id |-> system_id,
                              started |-> TRUE, created |-> FALSE]]
             ELSE [processing EXCEPT
                      !.processing_tasks =
                          [s \in DOMAIN @ \cup {system_id} |->
                              IF s = system_id THEN "scheduled" ELSE @[s]],
                      !.loops[system_id] = @ + 1,
                      !.op = [name |-> "start_processing", system_id |-> system_id,
                              started |-> FALSE, created |-> TRUE]]
        /\ UNCHANGED notProcessing

\* stop_processing: cancel() ends a loop that has not ended (its
\* CancelledError handler only logs); the entry is deleted.
StopProcessing ==
    \E system_id \in Systems :
        /\ processing' =
             IF system_id \in DOMAIN processing.processing_tasks
             THEN [processing EXCEPT
                      !.processing_tasks = Restrict(@, DOMAIN @ \ {system_id}),
                      !.loops[system_id] =
                          IF processing.processing_tasks[system_id] = "done"
                          THEN @ ELSE @ - 1,
                      !.op = [name |-> "stop_processing", system_id |-> system_id,
                              started |-> TRUE, created |-> FALSE]]
             ELSE [processing EXCEPT
                      !.op = [name |-> "stop_processing", system_id |-> system_id,
                              started |-> FALSE, created |-> FALSE]]
        /\ UNCHANGED notProcessing

\* _processing_loop from the top of `while True` to `await asyncio.sleep(1)`:
\* with no recent update it awaits _trigger_alert, whose KeyError is caught by
\* `except Exception`, which logs and lets the coroutine end.
ProcessingLoop ==
    \E system_id \in DOMAIN processing.processing_tasks :
        /\ processing.processing_tasks[system_id] \in {"scheduled", "ready"}
        /\ processing' =
             IF NoRecentUpdate(processing, system_id) /\ TriggerAlertRaisesKeyError
             THEN [processing EXCEPT !.processing_tasks[system_id] = "done",
                                     !.loops[system_id] = @ - 1]
             ELSE [processing EXCEPT !.processing_tasks[system_id] = "sleep"]
        /\ UNCHANGED notProcessing

\* `await asyncio.sleep(1)` is over.
SleepOver ==
    \E system_id \in DOMAIN processing.processing_tasks :
        /\ processing.processing_tasks[system_id] = "sleep"
        /\ processing' = [processing EXCEPT !.processing_tasks[system_id] = "ready"]
        /\ UNCHANGED notProcessing

\* process_sensor_data writes system_states[system_id] with last_update now.
SystemStateUpdated ==
    \E system_id \in Systems :
        /\ processing' =
             [processing EXCEPT
                 !.system_states =
                     [s \in DOMAIN @ \cup {system_id} |->
                         IF s = system_id THEN [last_update |-> processing.now]
                         ELSE @[s]]]
        /\ UNCHANGED notProcessing

\* Half a minute, or a second more, passes.
ProcessingClock ==
    \E seconds \in {30, 31} :
        /\ processing.now + seconds <= MaxSeconds
        /\ processing' = [processing EXCEPT !.now = @ + seconds]
        /\ UNCHANGED notProcessing

InitProcessing ==
    /\ eOp = [op |-> "none"]
    /\ eRet = NoCall
    /\ lstm_model = "none"
    /\ model_file = FALSE
    /\ cOp = [op |-> "none"]
    /\ cRet = NoCall
    /\ calls = <<>>
    /\ api = NoRequest
    /\ rt = NoProcessing
    /\ ServicesUnused
    /\ tasks = <<>>
    /\ manager = <<>>
    /\ processing = NewProcessing

NextProcessing ==
    \/ StartProcessing
    \/ StopProcessing
    \/ ProcessingLoop
    \/ SleepOver
    \/ SystemStateUpdated
    \/ ProcessingClock

SpecProcessing == InitProcessing /\ [][NextProcessing]_vars

\* C29: each system has at most one processing-loop task; start_processing on
\* a started system creates no task; after stop_processing the system has no
\* entry and no loop; and a system that has an entry in processing_tasks has
\* a loop that is still running.
C29_OneRunningLoopPerStartedSystem ==
    /\ \A s \in Systems : processing.loops[s] <= 1
    /\ (processing.op.name = "start_processing" /\ processing.op.started)
           => ~processing.op.created
    /\ processing.op.name = "stop_processing" =>
           /\ processing.op.system_id \notin DOMAIN processing.processing_tasks
           /\ processing.loops[processing.op.system_id] = 0
    /\ \A s \in DOMAIN processing.processing_tasks :
           /\ processing.processing_tasks[s] # "done"
           /\ processing.loops[s] = 1

(***************************************************************************)
(* SystemController                                                        *)
(*                                                                         *)
(* controller holds the db service the controller was built with, the      *)
(* commands that store_command has stored, and the last call with what it  *)
(* returned or raised.  A temperature is a float: nan, or a number kept in *)
(* tenths of a degree (adjust_temperature rounds to one decimal).          *)
(***************************************************************************)
MaxCommands == 2

Tenths == 10

notController == <<engines, api, rt, breaker, pool, realtime>>

Degrees(tenths) == [nan |-> FALSE, tenths |-> tenths]
NaN == [nan |-> TRUE, tenths |-> 0]

SetPoints ==
    {Degrees(15 * Tenths), Degrees(16 * Tenths - 1), Degrees(16 * Tenths),
     Degrees(23 * Tenths), Degrees(30 * Tenths), Degrees(30 * Tenths + 1), NaN}
TemperatureSteps == {Degrees(0 - Tenths), Degrees(Tenths), NaN}
Modes == {"cool", "heat"}

\* float comparison: every comparison with nan is false
FloatLess(a, b) == ~a.nan /\ ~b.nan /\ a.tenths < b.tenths
FloatLessEq(a, b) == ~a.nan /\ ~b.nan /\ a.tenths <= b.tenths

\* `round(current + step, 1)`
RoundedSum(current, step) ==
    IF current.nan \/ step.nan THEN NaN ELSE Degrees(current.tenths + step.tenths)

\* `if temperature < 16 or temperature > 30`
OutOfRange(temperature) ==
    FloatLess(temperature, Degrees(16 * Tenths)) \/ FloatLess(Degrees(30 * Tenths), temperature)

ControllerIdle == controller.op.name = "none"
NoControl == [name |-> "none"]
NoControlResult == [status |-> "none", status_code |-> 0, error_code |-> "", detail |-> ""]
ControlSuccess == [status |-> "success", status_code |-> 200, error_code |-> "", detail |-> ""]
ControlAPIError(status_code, detail, error_code) ==
    [status |-> "error", status_code |-> status_code, error_code |-> error_code,
     detail |-> detail]

NewSystemController(db) ==
    [db |-> db, commands |-> <<>>, op |-> NoControl, ret |-> NoControlResult]

\* AstraDBService.store_command reads command["parameters"], which a power
\* command does not have; any failure inside it is raised as a database error.
StoreCommandRaises(state, command, db_fails) ==
    \/ db_fails
    \/ state.db = "AstraDBService" /\ command.type = "power"

\* set_temperature: the state after it and what it returns or raises.  The
\* APIError of the range check is raised inside the `try` whose
\* `except Exception` raises the 500 CONTROL_ERROR in its place.
SetTemperature(state, system_id, temperature, mode, db_fails) ==
    LET command == [system_id |-> system_id, type |-> "temperature_control",
                    temperature |-> temperature, mode |-> mode]
    IN  IF OutOfRange(temperature)
        THEN [state |-> state,
              ret |-> ControlAPIError(500, "Failed to set temperature", "CONTROL_ERROR")]
        ELSE IF StoreCommandRaises(state, command, db_fails)
        THEN [state |-> state,
              ret |-> ControlAPIError(500, "Failed to set temperature", "CONTROL_ERROR")]
        ELSE [state |-> [state EXCEPT !.commands = Append(@, command)],
              ret |-> ControlSuccess]

\* set_power
SetPower(state, system_id, power, db_fails) ==
    LET command == [system_id |-> system_id, type |-> "power",
                    temperature |-> NaN, mode |-> IF power THEN "on" ELSE "off"]
    IN  IF StoreCommandRaises(state, command, db_fails)
        THEN [state |-> state,
              ret |-> ControlAPIError(500, "Failed to set power state", "CONTROL_ERROR")]
        ELSE [state |-> [state EXCEPT !.commands = Append(@, command)],
              ret |-> ControlSuccess]

\* adjust_temperature: AstraDBService has no get_current_temperature, so the
\* call raises AttributeError; whatever is raised inside, set_temperature's
\* APIError included, leaves as the 500 CONTROL_ERROR of adjust_temperature.
AdjustTemperature(state, system_id, current, step, db_fails) ==
    IF state.db = "AstraDBService"
    THEN [state |-> state,
          ret |-> ControlAPIError(500, "Failed to adjust temperature", "CONTROL_ERROR")]
    ELSE LET result == SetTemperature(state, system_id, RoundedSum(current, step),
                                      "cool", db_fails)
         IN  IF result.ret.status = "error"
             THEN [state |-> result.state,
                   ret |-> ControlAPIError(500, "Failed to adjust temperature",
                                           "CONTROL_ERROR")]
             ELSE result

SetTemperatureCall ==
    /\ ControllerIdle
    /\ Len(controller.commands) < MaxCommands
    /\ \E system_id \in Systems, temperature \in SetPoints, mode \in Modes,
          db_fails \in BOOLEAN :
          LET result == SetTemperature(controller, system_id, temperature, mode, db_fails)
          IN  controller' =
                  [result.state EXCEPT
                      !.op = [name |-> "set_temperature", temperature |-> temperature,
                              stored |-> result.state.commands # controller.commands],
                      !.ret = result.ret]
    /\ UNCHANGED notController

SetPowerCall ==
    /\ ControllerIdle
    /\ Len(controller.commands) < MaxCommands
    /\ \E system_id \in Systems, power \in BOOLEAN, db_fails \in BOOLEAN :
          LET result == SetPower(controller, system_id, power, db_fails)
          IN  controller' =
                  [result.state EXCEPT
                      !.op = [name |-> "set_power", temperature |-> NaN,
                              stored |-> result.state.commands # controller.commands],
                      !.ret = result.ret]
    /\ UNCHANGED notController

AdjustTemperatureCall ==
    /\ ControllerIdle
    /\ Len(controller.commands) < MaxCommands
    /\ \E system_id \in Systems, current \in SetPoints, step \in TemperatureSteps,
          db_fails \in BOOLEAN :
          LET result == AdjustTemperature(controller, system_id, current, step, db_fails)
          IN  controller' =
                  [result.state EXCEPT
                      !.op = [name |-> "adjust_temperature",
                              temperature |-> RoundedSum(current, step),
                              stored |-> result.state.commands # controller.commands],
                      !.ret = result.ret]
    /\ UNCHANGED notController

\* The caller takes the result.
ControlTaken ==
    /\ ~ControllerIdle
    /\ controller' = [controller EXCEPT !.op = NoControl, !.ret = NoControlResult]
    /\ UNCHANGED notController

InitController ==
    /\ eOp = [op |-> "none"]
    /\ eRet = NoCall
    /\ lstm_model = "none"
    /\ model_file = FALSE
    /\ cOp = [op |-> "none"]
    /\ cRet = NoCall
    /\ calls = <<>>
    /\ api = NoRequest
    /\ rt = NoProcessing
    /\ breaker = <<>>
    /\ pool = <<>>
    /\ controller \in {NewSystemController(db) : db \in DbServices}
    /\ RealTimeUnused

NextController ==
    \/ SetTemperatureCall
    \/ SetPowerCall
    \/ AdjustTemperatureCall
    \/ ControlTaken

SpecController == InitController /\ [][NextController]_vars

\* C30: set_temperature with a temperature below 16 or above 30 is rejected
\* with an APIError of status 400 and error code INVALID_TEMPERATURE and
\* stores no command, and every temperature_control command stored has a
\* temperature within [16, 30].
C30_InvalidTemperatureRejected ==
    /\ (controller.op.name = "set_temperature" /\ OutOfRange(controller.op.temperature))
           => /\ controller.ret.status = "error"
              /\ controller.ret.status_code = 400
              /\ controller.ret.error_code = "INVALID_TEMPERATURE"
              /\ ~controller.op.stored
    /\ \A i \in 1..Len(controller.commands) :
           controller.commands[i].type = "temperature_control"
             => /\ FloatLessEq(Degrees(16 * Tenths), controller.commands[i].temperature)
                /\ FloatLessEq(controller.commands[i].temperature, Degrees(30 * Tenths))
====
